---- MODULE Spec2Model ----
(***************************************************************************)
(* State-machine model of the Farm-Merge-Idle economy core:                *)
(*   src/App.tsx                   board, meters, merge, harvest, session  *)
(*   src/components/HexBoard.tsx   drag release -> fly-back -> impact      *)
(*   src/components/UpgradeList.tsx upgrade ledger, costs, purchase        *)
(*                                                                         *)
(* React state set by a callback is modelled as updated by that callback;  *)
(* every useEffect body, timer callback and animation-frame callback is an *)
(* action of its own, so the model explores their interleavings.           *)
(* Math.random() draws are existential choices.                            *)
(***************************************************************************)
EXTENDS Integers, Sequences, FiniteSets, Bags, TLC

----------------------------------------------------------------------------
(* Bounds of the model (not program constants)                             *)

\* largest argument the pure ledger functions are evaluated at
MaxLevelArg == 20
\* cap on harvestBounceTrigger, the count of harvest passes
MaxBounce == 2
\* cap on money held (guards the store's onAddMoney)
MaxMoney == 100000
\* cap on the number of upgrade levels bought in one behaviour
MaxPurchases == 3
\* cap on the number of taps on the plant button in one behaviour
MaxTaps == 8
\* cap on seedBounceTrigger, the count of seed meter revolutions
MaxSeedBounce == 2
\* largest seed_surplus level a session of the seed meter starts with
MaxSurplus == 2
\* largest crop_value and crop_synergy level a harvest session starts with
MaxHarvestLevel == 2
\* cap on the number of taps on the harvest button in one behaviour
MaxHarvestTaps == 2
\* largest harvest_boost level a session with merges starts with
MaxBoostLevel == 2

----------------------------------------------------------------------------
(* Small helpers                                                           *)

Min(a, b) == IF a < b THEN a ELSE b
Max(a, b) == IF a > b THEN a ELSE b
Abs(a) == IF a < 0 THEN -a ELSE a

RECURSIVE Pow2(_)
Pow2(n) == IF n <= 0 THEN 1 ELSE 2 * Pow2(n - 1)

\* Outcomes of Math.random() * 100, floored: one value on each side of every
\* chance the ledger can produce (5, 10, ..., 95).
RollValues == {0, 50, 99}

----------------------------------------------------------------------------
(* Board geometry: src/App.tsx generateInitialGrid                         *)

\* the distance of a square grid
getHexDistanceSquare(q, r) == Max(Abs(q), Abs(r))

getHexDistance(q, r) == (Abs(q) + Abs(r) + Abs(q + r)) \div 2

\* the cells of column q, in the order of the inner loop (r = r1 .. r2)
GridColumn(q) ==
  LET r1 == Max(-2, -q - 2)
      r2 == Min(2, -q + 2)
  IN  [i \in 1..(r2 - r1 + 1) |-> <<q, r1 + i - 1>>]

\* axial coordinates in push order; cell index idx (0-based) is GridCoords[idx+1]
GridCoords ==
  GridColumn(-2) \o GridColumn(-1) \o GridColumn(0) \o GridColumn(1) \o GridColumn(2)

NumCells == Len(GridCoords)
Cells == 0..(NumCells - 1)
CellQ(idx) == GridCoords[idx + 1][1]
CellR(idx) == GridCoords[idx + 1][2]

\* item: null (the type of an Item is always 'CROP' and is left out)
NoItem == [id |-> 0, level |-> 0]
\* "no cell" (null / undefined index)
NoCell == -1

generateInitialGrid ==
  [idx \in Cells |->
     [item |-> NoItem,
      locked |-> (getHexDistance(CellQ(idx), CellR(idx)) = 2),
      fertile |-> FALSE]]

getHexNeighborCoords(q, r) ==
  { <<q + 1, r>>, <<q - 1, r>>, <<q, r + 1>>, <<q, r - 1>>,
    <<q + 1, r - 1>>, <<q - 1, r + 1>> }

getAdjacentCellIndices(cellIdx) ==
  { o \in Cells : o # cellIdx
       /\ <<CellQ(o), CellR(o)>> \in getHexNeighborCoords(CellQ(cellIdx), CellR(cellIdx)) }

hasAdjacentSameLevel(cellIdx, g) ==
  /\ g[cellIdx].item # NoItem
  /\ \E o \in getAdjacentCellIndices(cellIdx) :
        g[o].item # NoItem /\ g[o].item.level = g[cellIdx].item.level

CropCount(g) == Cardinality({c \in Cells : g[c].item # NoItem})

----------------------------------------------------------------------------
(* Economy formulas                                                        *)

\* a coin value that grows by 5 per level
getCoinValueLinear(level) == 5 * level

\* src/App.tsx getCoinValueForLevel
getCoinValueForLevel(level) == 5 * Pow2(level - 1)

\* a seed_quality row that is never maxed
isSeedQualityNeverMaxed(ss, highest) == FALSE

\* src/components/UpgradeList.tsx: level -> derived parameter
getSeedQualityPercent(ss) == (ss.seed_quality % 10) * 10
getSeedBaseTier(ss) == ss.seedBaseTier
getSeedTargetTier(ss) == getSeedBaseTier(ss) + 1
getBonusSeedChance(ss) == Min(ss.bonus_seeds * 5, 50)
isBonusSeedMaxed(ss) == ss.bonus_seeds >= 10
isSeedQualityMaxed(ss, highest) == getSeedTargetTier(ss) > highest
isCropMergingMaxed(cs) == cs.crop_merging >= 10
\* multipliers are kept in tenths: 1.0 + 0.1 * level  ==  (10 + level) / 10
getCropMergingMultiplier10(cs) == 10 + cs.crop_merging
getLuckyMergeChance(cs) == cs.lucky_merge * 5
isLuckyMergeMaxed(cs) == cs.lucky_merge >= 10
getMergeHarvestChance(cs) == cs.merge_harvest * 5
isMergeHarvestMaxed(cs) == cs.merge_harvest >= 10
isPlotExpansionMaxed(lockedCellCount) == lockedCellCount <= 0
isFertileSoilMaxed(fertilizableCellCount) == fertilizableCellCount <= 0
\* a surplus value that does not grow with the level
getSeedSurplusValueFlat(ss) ==
  IF ss.seed_surplus = 0 THEN 0 ELSE 10

getSeedSurplusValue(ss) ==
  IF ss.seed_surplus = 0 THEN 0 ELSE 10 * Pow2(ss.seed_surplus - 1)
getCropValueMultiplier10(hs) == 10 + hs.crop_value
getHarvestBoostPercent(hs) == hs.harvest_boost * 2
getCropSynergyMultiplier10(hs) == 10 + hs.crop_synergy
\* a lucky harvest chance that is 5% even at level 0
getLuckyHarvestChanceFloor(hs) == Max(hs.lucky_harvest, 1) * 5

getLuckyHarvestChance(hs) == hs.lucky_harvest * 5
isLuckyHarvestMaxed(hs) == hs.lucky_harvest >= 10
isHarvestBoostMaxed(hs) == hs.harvest_boost >= 10

\* initial ledgers (UpgradeState.progress is always 0 and is left out)
createInitialSeedsState ==
  [seed_production |-> 0, seed_quality |-> 0, seed_storage |-> 0,
   seed_surplus |-> 0, bonus_seeds |-> 0, seedBaseTier |-> 1]
createInitialCropsState ==
  [crop_merging |-> 0, plot_expansion |-> 1, merge_harvest |-> 0,
   fertile_soil |-> 0, lucky_merge |-> 0]
createInitialHarvestState ==
  [harvest_speed |-> 0, crop_value |-> 0, harvest_boost |-> 0,
   crop_synergy |-> 0, lucky_harvest |-> 0]

----------------------------------------------------------------------------
(* Purchase prices: src/components/UpgradeList.tsx                         *)

\* UPGRADE_COSTS: baseCost and growth (in hundredths) per upgrade id
UPGRADE_COSTS ==
  [seed_production |-> [baseCost |-> 75, growth100 |-> 118],
   seed_storage |-> [baseCost |-> 40, growth100 |-> 116],
   seed_surplus |-> [baseCost |-> 120, growth100 |-> 122],
   bonus_seeds |-> [baseCost |-> 300, growth100 |-> 128],
   seed_quality |-> [baseCost |-> 250, growth100 |-> 100],
   plot_expansion |-> [baseCost |-> 150, growth100 |-> 135],
   crop_merging |-> [baseCost |-> 200, growth100 |-> 120],
   merge_harvest |-> [baseCost |-> 350, growth100 |-> 127],
   lucky_merge |-> [baseCost |-> 600, growth100 |-> 130],
   fertile_soil |-> [baseCost |-> 500, growth100 |-> 133],
   harvest_speed |-> [baseCost |-> 90, growth100 |-> 118],
   crop_value |-> [baseCost |-> 250, growth100 |-> 123],
   crop_synergy |-> [baseCost |-> 300, growth100 |-> 124],
   harvest_boost |-> [baseCost |-> 180, growth100 |-> 122],
   lucky_harvest |-> [baseCost |-> 450, growth100 |-> 127]]

\* stageCosts of seed_quality
SeedQualityStageCosts == <<250, 900, 3000, 10000>>

\* Math.round(baseCost * Math.pow(growth, level) / 5) * 5 for level 0..13 (index level + 1),
\* evaluated in IEEE double arithmetic as the code does (the products exceed
\* the integer range of TLC, so the values are tabulated)
UpgradeCostTable ==
  [
   seed_production |-> <<75, 90, 105, 125, 145, 170, 200, 240, 280, 335, 395, 465, 545, 645>>,
   seed_storage |-> <<40, 45, 55, 60, 70, 85, 95, 115, 130, 150, 175, 205, 235, 275>>,
   seed_surplus |-> <<120, 145, 180, 220, 265, 325, 395, 485, 590, 720, 875, 1070, 1305, 1590>>,
   bonus_seeds |-> <<300, 385, 490, 630, 805, 1030, 1320, 1690, 2160, 2765, 3540, 4535, 5805, 7430>>,
   plot_expansion |-> <<150, 205, 275, 370, 500, 675, 910, 1225, 1655, 2235, 3015, 4070, 5495, 7420>>,
   crop_merging |-> <<200, 240, 290, 345, 415, 500, 595, 715, 860, 1030, 1240, 1485, 1785, 2140>>,
   merge_harvest |-> <<350, 445, 565, 715, 910, 1155, 1470, 1865, 2370, 3010, 3820, 4850, 6160, 7825>>,
   lucky_merge |-> <<600, 780, 1015, 1320, 1715, 2230, 2895, 3765, 4895, 6365, 8270, 10755, 13980, 18175>>,
   fertile_soil |-> <<500, 665, 885, 1175, 1565, 2080, 2765, 3680, 4895, 6510, 8660, 11515, 15320, 20370>>,
   harvest_speed |-> <<90, 105, 125, 150, 175, 205, 245, 285, 340, 400, 470, 555, 655, 775>>,
   crop_value |-> <<250, 310, 380, 465, 570, 705, 865, 1065, 1310, 1610, 1980, 2435, 3000, 3685>>,
   crop_synergy |-> <<300, 370, 460, 570, 710, 880, 1090, 1350, 1675, 2080, 2580, 3195, 3965, 4915>>,
   harvest_boost |-> <<180, 220, 270, 325, 400, 485, 595, 725, 885, 1080, 1315, 1605, 1955, 2390>>,
   lucky_harvest |-> <<450, 570, 725, 920, 1170, 1485, 1890, 2400, 3045, 3870, 4910, 6240, 7920, 10060>>
  ]


\* Math.round(x / 5) * 5 for an integer x
RoundTo5(x) == ((2 * x + 5) \div 10) * 5

\* a price rounded to the nearest 50
calculateUpgradeCostCoarse(upgradeId, currentLevel) ==
  ((UpgradeCostTable[upgradeId][currentLevel + 1] + 25) \div 50) * 50

calculateUpgradeCost(upgradeId, currentLevel) ==
  IF upgradeId = "seed_quality"
  THEN LET stage == currentLevel \div 10
           stageCost == SeedQualityStageCosts[Min(stage, Len(SeedQualityStageCosts) - 1) + 1]
       IN  RoundTo5(stageCost)
  ELSE UpgradeCostTable[upgradeId][currentLevel + 1]

SeedsIds == {"seed_production", "seed_quality", "seed_storage", "seed_surplus", "bonus_seeds"}
CropsIds == {"plot_expansion", "crop_merging", "merge_harvest", "fertile_soil", "lucky_merge"}
HarvestIds == {"harvest_speed", "crop_value", "harvest_boost", "crop_synergy", "lucky_harvest"}

----------------------------------------------------------------------------
(* State                                                                   *)

VARIABLES
  money,                        \* useState(0)
  grid,                         \* useState(generateInitialGrid())
  seedsState,                   \* upgrade levels of the SEEDS tab and seedBaseTier
  cropsState,                   \* upgrade levels of the CROPS tab
  harvestState,                 \* upgrade levels of the HARVEST tab
  highestPlantEver,
  seedsInStorage,
  seedProgress,                 \* React state: 0 or 100
  isSeedFlashing,
  seedProgressRef,              \* the meter value, in percent (seedBounceTrigger and the
                                \* other animation triggers of the seed button are left out)
  tapZoomRef,                   \* running tap zoom of the seed meter, or NoZoom
  seedFlashTimers,              \* pending setTimeout(() => setIsSeedFlashing(false), 300)
  seedBounceTrigger,            \* incremented at every revolution of the seed meter
  harvestProgress,
  isHarvestFlashing,
  harvestProgressRef,
  harvestTapZoomRef,
  harvestBounceTrigger,
  harvestTimers,                \* the pending timers set by the harvest effect
  activeProjectiles,            \* bag of seeds in flight
  bonusSeedTimers,              \* pending setTimeout(spawnProjectile, 50) of bonus seeds
  activeCoinPanels,             \* bag of coin panels on their way to the wallet
  dragState,
  pendingMergeLevelIncreaseRef,
  unlockTimers,                 \* pending setTimeout(unlock cell, 200), a bag of cell indices
  fertilizeTimers,              \* pending setTimeout(fertilize cell, 200), a bag of cell indices
  nextItemId,                   \* stands for the fresh random id of spawnCropAt
  pureFn, pureArg, pureOut,     \* evaluation of the pure ledger functions
  plantTaps,                    \* history: n, the calls of handlePlantClick so far, and
                                \* cut, those that replaced a tap zoom still running
  harvestTaps,                  \* history: the calls of handleHarvestClick so far
  bonusSeedsFired,              \* history: n, the bonus seeds handlePlantClick has fired so
                                \* far, and same, those of them aimed at the first target
  coinPanelViews                \* the mounted CoinPanel components, a bag of records: coin,
                                \* phase (state), tickPhase (the phase the scheduled tick
                                \* closes over), impactFired (impactFiredRef.current)

boardVars == <<grid, highestPlantEver, dragState, pendingMergeLevelIncreaseRef,
               nextItemId>>
seedMeterVars == <<seedProgress, isSeedFlashing, seedProgressRef, tapZoomRef,
                   seedFlashTimers, seedBounceTrigger>>
harvestMeterVars == <<harvestProgress, isHarvestFlashing, harvestProgressRef,
                      harvestTapZoomRef, harvestBounceTrigger, harvestTimers>>
ledgerVars == <<seedsState, cropsState, harvestState>>
flightVars == <<activeProjectiles, bonusSeedTimers>>
shopTimerVars == <<unlockTimers, fertilizeTimers>>
pureVars == <<pureFn, pureArg, pureOut>>

vars == <<money, seedsInStorage, activeCoinPanels, boardVars, seedMeterVars,
          harvestMeterVars, ledgerVars, flightVars, shopTimerVars, pureVars, bonusSeedsFired, coinPanelViews, plantTaps, harvestTaps>>

\* no tap on the plant button yet
NoTaps == [n |-> 0, cut |-> 0]

\* no bonus seed fired yet
NoBonusSeeds == [n |-> 0, same |-> 0]

\* tapZoomRef.current === null
NoZoom == [start |-> -1, end |-> -1]
\* no timer of the harvest effect is pending; otherwise stage names the next
\* timer to fire: "off" (300 ms, not lucky), or in turn "luckyBlink" (150 ms),
\* "luckyHarvest" (300 ms), "luckyOff" (600 ms); panels are the coin panels
\* of the performHarvest closure the lucky timer holds
NoTimers == [stage |-> "none", panels |-> EmptyBag]
\* dragState === null
NoDrag == [phase |-> "none", cellIdx |-> NoCell, item |-> NoItem,
           targetCellIdx |-> NoCell, isMerge |-> FALSE, mergeResultLevel |-> 0]

seedStorageMax == 1 + seedsState.seed_storage
lockedCellCount == Cardinality({c \in Cells : grid[c].locked})
fertilizableCellCount == Cardinality({c \in Cells : ~grid[c].locked /\ ~grid[c].fertile})

\* the state after construction of App
Init ==
  /\ money = 0
  /\ grid = generateInitialGrid
  /\ seedsState = createInitialSeedsState
  /\ cropsState = createInitialCropsState
  /\ harvestState = createInitialHarvestState
  /\ highestPlantEver = 1
  /\ seedsInStorage = 0
  /\ seedProgress = 0 /\ isSeedFlashing = FALSE /\ seedProgressRef = 0
  /\ tapZoomRef = NoZoom /\ seedFlashTimers = 0 /\ seedBounceTrigger = 0
  /\ harvestProgress = 0 /\ isHarvestFlashing = FALSE /\ harvestProgressRef = 0
  /\ harvestTapZoomRef = NoZoom /\ harvestBounceTrigger = 0 /\ harvestTimers = NoTimers
  /\ activeProjectiles = EmptyBag /\ bonusSeedTimers = EmptyBag
  /\ activeCoinPanels = EmptyBag
  /\ dragState = NoDrag
  /\ pendingMergeLevelIncreaseRef = 1
  /\ unlockTimers = EmptyBag /\ fertilizeTimers = EmptyBag
  /\ nextItemId = 1
  /\ pureFn = "none" /\ pureArg = 0 /\ pureOut = -1
  /\ plantTaps = NoTaps
  /\ harvestTaps = 0
  /\ bonusSeedsFired = NoBonusSeeds
  /\ coinPanelViews = EmptyBag

\* one element added to / removed from a bag
BagAdd(b, e) == b (+) SetToBag({e})
BagRemove(b, e) == b (-) SetToBag({e})

----------------------------------------------------------------------------
(* Planting: src/App.tsx handlePlantClick (stored seed), Projectile impact *)

\* calculatePlantLevel; roll is Math.random() * 100
calculatePlantLevel(ss, roll) ==
  IF getSeedQualityPercent(ss) > 0 /\ roll < getSeedQualityPercent(ss)
  THEN getSeedBaseTier(ss) + 1
  ELSE getSeedBaseTier(ss)

\* empty cells, locked or not
emptyIndicesIgnoringLock(g) == {i \in Cells : g[i].item = NoItem}

\* unlocked empty cells
emptyIndices(g) == {i \in Cells : g[i].item = NoItem /\ ~g[i].locked}

\* handlePlantClick while seedsInStorage > 0: fire one stored seed and roll the
\* bonus seed; with no unlocked empty cell the handler returns without a change
PlantTapFire ==
  /\ seedsInStorage > 0
  /\ plantTaps.n < MaxTaps
  /\ plantTaps' = [plantTaps EXCEPT !.n = @ + 1]
  /\ IF emptyIndices(grid) = {}
     THEN UNCHANGED <<activeProjectiles, seedsInStorage, bonusSeedTimers, bonusSeedsFired>>
     ELSE \E targetIdx \in emptyIndices(grid), roll1 \in RollValues, rollB \in RollValues :
       LET plantLevel == calculatePlantLevel(seedsState, roll1)
           bonusChance == getBonusSeedChance(seedsState)
           remainingEmptyIndices == emptyIndices(grid) \ {targetIdx}
       IN  /\ activeProjectiles' =
                BagAdd(activeProjectiles, [targetIdx |-> targetIdx, plantLevel |-> plantLevel])
           /\ seedsInStorage' = Max(0, seedsInStorage - 1)
           /\ IF bonusChance > 0 /\ rollB < bonusChance
              THEN \E secondTargetIdx \in
                        (IF remainingEmptyIndices # {} THEN remainingEmptyIndices ELSE {targetIdx}),
                      roll2 \in RollValues :
                     /\ bonusSeedTimers' =
                          BagAdd(bonusSeedTimers,
                                 [targetIdx |-> secondTargetIdx,
                                  plantLevel |-> calculatePlantLevel(seedsState, roll2)])
                     /\ bonusSeedsFired' =
                          [n |-> bonusSeedsFired.n + 1,
                           same |-> IF secondTargetIdx = targetIdx
                                    THEN bonusSeedsFired.same + 1
                                    ELSE bonusSeedsFired.same]
              ELSE UNCHANGED <<bonusSeedTimers, bonusSeedsFired>>
  /\ UNCHANGED <<money, activeCoinPanels, boardVars, seedMeterVars, harvestMeterVars,
                 ledgerVars, shopTimerVars, pureVars, coinPanelViews, harvestTaps>>

\* setTimeout(() => spawnProjectile(secondTargetIdx, secondPlantLevel), 50)
BonusSeedTimeout ==
  /\ \E p \in BagToSet(bonusSeedTimers) :
       /\ bonusSeedTimers' = BagRemove(bonusSeedTimers, p)
       /\ activeProjectiles' = BagAdd(activeProjectiles, p)
  /\ UNCHANGED <<money, seedsInStorage, activeCoinPanels, boardVars, seedMeterVars,
                 harvestMeterVars, ledgerVars, shopTimerVars, pureVars, bonusSeedsFired, coinPanelViews, plantTaps, harvestTaps>>

\* spawnCropAt: the updater of setGrid
spawnCropAt(g, index, plantLevel, id) ==
  IF g[index].item = NoItem
  THEN [g EXCEPT ![index].item = [id |-> id, level |-> plantLevel]]
  ELSE g

\* Projectile onImpact (spawnCropAt) followed by onComplete (projectile removed)
ProjectileImpact ==
  /\ \E p \in BagToSet(activeProjectiles) :
       /\ grid' = spawnCropAt(grid, p.targetIdx, p.plantLevel, nextItemId)
       /\ nextItemId' = IF grid[p.targetIdx].item = NoItem THEN nextItemId + 1 ELSE nextItemId
       /\ activeProjectiles' = BagRemove(activeProjectiles, p)
  /\ UNCHANGED <<money, seedsInStorage, activeCoinPanels, highestPlantEver, dragState,
                 pendingMergeLevelIncreaseRef, seedMeterVars, harvestMeterVars,
                 ledgerVars, bonusSeedTimers, shopTimerVars, pureVars, bonusSeedsFired, coinPanelViews, plantTaps, harvestTaps>>

----------------------------------------------------------------------------
(* Drag and merge: src/components/HexBoard.tsx, src/App.tsx handleMerge    *)

\* getMergeLevelIncrease; roll is Math.random() * 100
getMergeLevelIncrease(currentPlantLevel, cs, highest, roll) ==
  LET luckyMergeChance == getLuckyMergeChance(cs)
      wouldSkipNewLevel == currentPlantLevel >= highest
      canLuckyMerge == luckyMergeChance > 0 /\ ~wouldSkipNewLevel
      isLuckyMerge == canLuckyMerge /\ roll < luckyMergeChance
  IN  IF isLuckyMerge THEN 2 ELSE 1

\* handlePointerDown -> startDrag: pick up the crop of an unlocked cell
\* (a tap on a locked or empty cell only switches the upgrade tab)
StartDrag ==
  /\ \E index \in Cells :
       /\ ~grid[index].locked
       /\ grid[index].item # NoItem
       /\ dragState.phase \in {"none", "impact"}
       /\ dragState' = [NoDrag EXCEPT !.phase = "holding", !.cellIdx = index,
                                      !.item = grid[index].item]
  /\ UNCHANGED <<money, seedsInStorage, activeCoinPanels, grid, highestPlantEver,
                 pendingMergeLevelIncreaseRef, nextItemId, seedMeterVars,
                 harvestMeterVars, ledgerVars, flightVars, shopTimerVars, pureVars, bonusSeedsFired, coinPanelViews, plantTaps, harvestTaps>>

\* onUp whose merge test accepts the cell the crop was picked up from
isValidMergeOwnCell(g, ds, targetIdx) ==
  /\ targetIdx # NoCell
  /\ ~g[targetIdx].locked
  /\ g[targetIdx].item # NoItem
  /\ g[targetIdx].item.level = ds.item.level

\* onUp: classification of the release over targetIdx
isValidMerge(g, ds, targetIdx) ==
  /\ targetIdx # NoCell
  /\ targetIdx # ds.cellIdx
  /\ ~g[targetIdx].locked
  /\ g[targetIdx].item # NoItem
  /\ g[targetIdx].item.level = ds.item.level

\* onUp without "Locked cells cannot be drop targets" for an empty cell
isEmptyCellIgnoringLock(g, ds, targetIdx) ==
  /\ targetIdx # NoCell
  /\ targetIdx # ds.cellIdx
  /\ g[targetIdx].item = NoItem

isEmptyCell(g, ds, targetIdx) ==
  /\ targetIdx # NoCell
  /\ targetIdx # ds.cellIdx
  /\ ~g[targetIdx].locked
  /\ g[targetIdx].item = NoItem

\* onUp -> startFlyBack: targetIdx is the cell under the pointer (NoCell: none)
OnUp ==
  /\ dragState.phase = "holding"
  /\ \E targetIdx \in Cells \cup {NoCell}, inBounds \in BOOLEAN, roll \in RollValues :
       IF isValidMerge(grid, dragState, targetIdx)
       THEN LET levelIncrease ==
                  getMergeLevelIncrease(dragState.item.level, cropsState, highestPlantEver, roll)
            IN  /\ pendingMergeLevelIncreaseRef' = levelIncrease
                /\ dragState' = [dragState EXCEPT !.phase = "flyingBack",
                                   !.targetCellIdx = targetIdx, !.isMerge = TRUE,
                                   !.mergeResultLevel = dragState.item.level + levelIncrease]
       ELSE IF inBounds /\ isEmptyCell(grid, dragState, targetIdx)
       THEN /\ dragState' = [dragState EXCEPT !.phase = "flyingBack",
                               !.targetCellIdx = targetIdx, !.isMerge = FALSE,
                               !.mergeResultLevel = 0]
            /\ UNCHANGED pendingMergeLevelIncreaseRef
       ELSE /\ dragState' = [dragState EXCEPT !.phase = "flyingBack"]
            /\ UNCHANGED pendingMergeLevelIncreaseRef
  /\ UNCHANGED <<money, seedsInStorage, activeCoinPanels, grid, highestPlantEver,
                 nextItemId, seedMeterVars, harvestMeterVars, ledgerVars,
                 flightVars, shopTimerVars, pureVars, bonusSeedsFired, coinPanelViews, plantTaps, harvestTaps>>

\* onCancel: pointercancel while holding
PointerCancel ==
  /\ dragState.phase = "holding"
  /\ dragState' = NoDrag
  /\ UNCHANGED <<money, seedsInStorage, activeCoinPanels, grid, highestPlantEver,
                 pendingMergeLevelIncreaseRef, nextItemId, seedMeterVars,
                 harvestMeterVars, ledgerVars, flightVars, shopTimerVars, pureVars, bonusSeedsFired, coinPanelViews, plantTaps, harvestTaps>>


\* handleMerge whose merge branch leaves the source crop in place
handleMergeGridKeepingSource(g, sourceIdx, targetIdx, levelIncrease) ==
  LET source == g[sourceIdx]
      target == g[targetIdx]
  IN  IF source.item = NoItem THEN g
      ELSE IF target.item # NoItem /\ target.item.level = source.item.level
      THEN [g EXCEPT ![targetIdx].item.level = @ + levelIncrease]
      ELSE IF target.item = NoItem
      THEN [g EXCEPT ![targetIdx].item = source.item,
                     ![sourceIdx].item = NoItem]
      ELSE g

\* handleMerge whose relocate branch copies the crop instead of moving it
handleMergeGridCopying(g, sourceIdx, targetIdx, levelIncrease) ==
  LET source == g[sourceIdx]
      target == g[targetIdx]
  IN  IF source.item = NoItem THEN g
      ELSE IF target.item # NoItem /\ target.item.level = source.item.level
      THEN [g EXCEPT ![targetIdx].item.level = @ + levelIncrease,
                     ![sourceIdx].item = NoItem]
      ELSE IF target.item = NoItem
      THEN [g EXCEPT ![targetIdx].item = source.item]
      ELSE g

\* handleMerge whose relocate branch carries the fertile flag along with the crop
handleMergeGridMovingFlag(g, sourceIdx, targetIdx, levelIncrease) ==
  LET source == g[sourceIdx]
      target == g[targetIdx]
  IN  IF source.item = NoItem THEN g
      ELSE IF target.item # NoItem /\ target.item.level = source.item.level
      THEN [g EXCEPT ![targetIdx].item.level = @ + levelIncrease,
                     ![sourceIdx].item = NoItem]
      ELSE IF target.item = NoItem
      THEN [g EXCEPT ![targetIdx].item = source.item,
                     ![targetIdx].fertile = source.fertile,
                     ![sourceIdx].item = NoItem,
                     ![sourceIdx].fertile = FALSE]
      ELSE g

\* the updater handleMerge passes to setGrid
handleMergeGrid(g, sourceIdx, targetIdx, levelIncrease) ==
  LET source == g[sourceIdx]
      target == g[targetIdx]
  IN  IF source.item = NoItem THEN g
      ELSE IF target.item # NoItem /\ target.item.level = source.item.level
      THEN [g EXCEPT ![targetIdx].item.level = @ + levelIncrease,
                     ![sourceIdx].item = NoItem]
      ELSE IF target.item = NoItem
      THEN [g EXCEPT ![targetIdx].item = source.item,
                     ![sourceIdx].item = NoItem]
      ELSE g

\* willMerge of handleMerge
willMerge(g, sourceIdx, targetIdx) ==
  /\ g[sourceIdx].item # NoItem
  /\ g[targetIdx].item # NoItem
  /\ g[targetIdx].item.level = g[sourceIdx].item.level

\* a harvest value that leaves out the doubling of fertile cells
cellHarvestValueNoFertile(g, cellIdx, hs) ==
  LET baseValue == getCoinValueForLevel(g[cellIdx].item.level)
      cv10 == getCropValueMultiplier10(hs)
      cs10 == getCropSynergyMultiplier10(hs)
      hasSynergy == cs10 > 10 /\ hasAdjacentSameLevel(cellIdx, g)
      syn10 == IF hasSynergy THEN cs10 ELSE 10
  IN  (baseValue * cv10 * syn10) \div 100

\* harvest value of the crop of one cell (performHarvest, performMergeHarvest):
\* Math.floor(base * cropValue * [synergy] * [2]); multipliers in tenths.  The
\* integer quotient equals Math.floor of the double product of the code for
\* every crop level up to 14 and every crop_value, crop_synergy level up to 14
\* (at higher levels the double product can fall just below an integer).
cellHarvestValue(g, cellIdx, hs) ==
  LET baseValue == getCoinValueForLevel(g[cellIdx].item.level)
      cv10 == getCropValueMultiplier10(hs)
      cs10 == getCropSynergyMultiplier10(hs)
      hasSynergy == cs10 > 10 /\ hasAdjacentSameLevel(cellIdx, g)
      syn10 == IF hasSynergy THEN cs10 ELSE 10
      fert == IF g[cellIdx].fertile THEN 2 ELSE 1
  IN  (baseValue * cv10 * syn10 * fert) \div 100

\* the bag holding panel[c] for every c in S
RECURSIVE PanelsOf(_, _)
PanelsOf(S, panel) ==
  IF S = {} THEN EmptyBag
  ELSE LET c == CHOOSE x \in S : TRUE
       IN  SetToBag({panel[c]}) (+) PanelsOf(S \ {c}, panel)

\* performMergeHarvest without the exclusion of the source cell
adjacentWithCropsAndSource(g, centerCellIdx, excludeCellIdx) ==
  {idx \in getAdjacentCellIndices(centerCellIdx) : g[idx].item # NoItem}

\* performMergeHarvest: the cells next to the merge target that hold a crop
adjacentWithCrops(g, centerCellIdx, excludeCellIdx) ==
  {idx \in getAdjacentCellIndices(centerCellIdx) :
       idx # excludeCellIdx /\ g[idx].item # NoItem}

\* merge coin panel of onMergeImpactStart
mergeCoinValue(mergeResultLevel, cs) ==
  (getCoinValueForLevel(mergeResultLevel) * getCropMergingMultiplier10(cs)) \div 10

\* a record that moves up by one with every merge, whatever its level
highestAfterMergeCounting(merges, newLevel, highest) ==
  IF merges THEN highest + 1 ELSE highest

\* handleMerge: if (newLevel != null && newLevel > highestPlantEver)
\* setHighestPlantEver(newLevel); newLevel is null unless willMerge
highestAfterMerge(merges, newLevel, highest) ==
  IF merges /\ newLevel > highest THEN newLevel ELSE highest

\* fly-back impact (t >= impactStartT): onMerge = handleMerge, then
\* onMergeImpactStart when the release was classified as a merge, then the
\* drag enters its impact phase
FlyBackImpact ==
  /\ dragState.phase = "flyingBack"
  /\ LET sourceIdx == dragState.cellIdx
         targetIdx == dragState.targetCellIdx
         levelIncrease == pendingMergeLevelIncreaseRef
     IN
       /\ dragState' = [dragState EXCEPT !.phase = "impact"]
       /\ IF targetIdx = NoCell
          THEN UNCHANGED <<grid, highestPlantEver, harvestTapZoomRef, activeCoinPanels>>
          ELSE
            LET merges == willMerge(grid, sourceIdx, targetIdx)
                newLevel == grid[targetIdx].item.level + levelIncrease
                boostPercent == getHarvestBoostPercent(harvestState)
                mergeHarvestChance == getMergeHarvestChance(cropsState)
                mergePanel ==
                  IF dragState.isMerge
                  THEN SetToBag({[kind |-> "merge",
                                  value |-> mergeCoinValue(dragState.mergeResultLevel, cropsState)]})
                  ELSE EmptyBag
            IN
              /\ grid' = handleMergeGrid(grid, sourceIdx, targetIdx, levelIncrease)
              /\ highestPlantEver' = highestAfterMerge(merges, newLevel, highestPlantEver)
              /\ harvestTapZoomRef' =
                   IF merges /\ boostPercent > 0 /\ ~isHarvestFlashing
                   THEN [start |-> harvestProgressRef,
                         end |-> Min(100, harvestProgressRef + boostPercent)]
                   ELSE harvestTapZoomRef
              /\ \E triggeredCells \in
                      (IF merges /\ mergeHarvestChance > 0
                       THEN SUBSET adjacentWithCrops(grid, targetIdx, sourceIdx)
                       ELSE {{}}) :
                   activeCoinPanels' =
                     activeCoinPanels
                       (+) PanelsOf(triggeredCells,
                                    [c \in Cells |->
                                       [kind |-> "merge-harvest",
                                        value |-> IF grid[c].item = NoItem THEN 0
                                                  ELSE cellHarvestValue(grid, c, harvestState)]])
                       (+) mergePanel
  /\ UNCHANGED <<money, seedsInStorage, pendingMergeLevelIncreaseRef, nextItemId,
                 seedMeterVars, harvestProgress, isHarvestFlashing, harvestProgressRef,
                 harvestBounceTrigger, harvestTimers, ledgerVars, flightVars,
                 shopTimerVars, pureVars, bonusSeedsFired, coinPanelViews, plantTaps, harvestTaps>>

\* setTimeout(..., IMPACT_BOUNCE_MS) armed at impact: the drag ends unless a new
\* one has started.  The timer of the current impact is pending for as long as
\* the impact phase lasts, and a timer of an earlier impact changes nothing that
\* this one does not, so no list of timers is kept.
ImpactTimeout ==
  /\ dragState.phase = "impact"
  /\ dragState' = NoDrag
  /\ UNCHANGED <<money, seedsInStorage, activeCoinPanels, grid, highestPlantEver,
                 pendingMergeLevelIncreaseRef, nextItemId, seedMeterVars,
                 harvestMeterVars, ledgerVars, flightVars, shopTimerVars, pureVars, bonusSeedsFired, coinPanelViews, plantTaps, harvestTaps>>

\* CoinPanel onImpact (setMoney(prev => prev + value)) followed by onComplete
CoinPanelImpact ==
  /\ \E coin \in BagToSet(activeCoinPanels) :
       /\ money' = money + coin.value
       /\ activeCoinPanels' = BagRemove(activeCoinPanels, coin)
  /\ UNCHANGED <<seedsInStorage, boardVars, seedMeterVars, harvestMeterVars, ledgerVars,
                 flightVars, shopTimerVars, pureVars, bonusSeedsFired, coinPanelViews, plantTaps, harvestTaps>>

----------------------------------------------------------------------------
(* Specification of the board: planting of stored seeds, drag, merge       *)

\* A mid-game session.  It is reached from Init by: store credit, purchase
\* of lucky_merge; four level-1 seeds planted; a merge
\* 1+1 -> 2 (highestPlantEver 2); a lucky merge 1+1 -> 3 (highestPlantEver 3,
\* pending level increase 2); the level-2 crop moved to cell 4 and the level-3
\* crop to cell 9; eleven purchases of seed_quality (seedBaseTier 2, 10%);
\* one seed meter completion filling the storage.
InitMerge ==
  /\ money = 0
  /\ grid = [generateInitialGrid EXCEPT ![4].item = [id |-> 2, level |-> 2],
                                        ![9].item = [id |-> 4, level |-> 3]]
  /\ seedsState = [createInitialSeedsState EXCEPT !.seed_quality = 11, !.seedBaseTier = 2,
                                                  !.seed_storage = 0]
  /\ cropsState = [createInitialCropsState EXCEPT !.lucky_merge = 1]
  /\ harvestState = createInitialHarvestState
  /\ highestPlantEver = 3
  /\ seedsInStorage = 1
  /\ seedProgress = 0 /\ isSeedFlashing = FALSE /\ seedProgressRef = 50
  /\ tapZoomRef = NoZoom /\ seedFlashTimers = 0 /\ seedBounceTrigger = 0
  /\ harvestProgress = 0 /\ isHarvestFlashing = FALSE /\ harvestProgressRef = 50
  /\ harvestTapZoomRef = NoZoom /\ harvestBounceTrigger = 0 /\ harvestTimers = NoTimers
  /\ activeProjectiles = EmptyBag /\ bonusSeedTimers = EmptyBag
  /\ activeCoinPanels = EmptyBag
  /\ dragState = NoDrag
  /\ pendingMergeLevelIncreaseRef = 2
  /\ unlockTimers = EmptyBag /\ fertilizeTimers = EmptyBag
  /\ nextItemId = 5
  /\ pureFn = "none" /\ pureArg = 0 /\ pureOut = -1
  /\ plantTaps = NoTaps
  /\ harvestTaps = 0
  /\ bonusSeedsFired = NoBonusSeeds
  /\ coinPanelViews = EmptyBag

NextMerge ==
  \/ PlantTapFire
  \/ ProjectileImpact
  \/ StartDrag
  \/ OnUp
  \/ PointerCancel
  \/ FlyBackImpact
  \/ ImpactTimeout
  \/ CoinPanelImpact

SpecMerge == InitMerge /\ [][NextMerge]_vars

----------------------------------------------------------------------------
(* Claims about the merge action, checked under SpecMerge                  *)

\* the step in which the fly-back reaches its impact: handleMerge is applied
ImpactStep == dragState.phase = "flyingBack" /\ dragState'.phase = "impact"

\* handleMerge is applied to a source and a target holding crops of one level
MergeStep ==
  /\ ImpactStep
  /\ dragState.targetCellIdx # NoCell
  /\ dragState.cellIdx # dragState.targetCellIdx
  /\ willMerge(grid, dragState.cellIdx, dragState.targetCellIdx)

\* C1: whenever handleMerge is applied to two distinct cells s, t holding crops
\* of the same level L, afterwards s is empty, t holds a crop of level L+1 or
\* L+2, and the number of crops on the board has decreased by exactly 1.
C1_MergeResult ==
  [][MergeStep =>
       LET s == dragState.cellIdx
           t == dragState.targetCellIdx
           L == grid[s].item.level
       IN  /\ grid'[s].item = NoItem
           /\ grid'[t].item # NoItem
           /\ grid'[t].item.level \in {L + 1, L + 2}
           /\ CropCount(grid') = CropCount(grid) - 1]_vars

\* a lucky merge has been applied: the source is empty, the target two levels up
C1_Witness ==
  /\ dragState.phase = "impact"
  /\ dragState.isMerge
  /\ grid[dragState.cellIdx].item = NoItem
  /\ grid[dragState.targetCellIdx].item.level = dragState.item.level + 2

C3_Relocate ==
  [][(/\ ImpactStep
      /\ dragState.targetCellIdx # NoCell
      /\ grid[dragState.cellIdx].item # NoItem
      /\ grid[dragState.targetCellIdx].item = NoItem
      /\ ~grid[dragState.targetCellIdx].locked)
     => LET s == dragState.cellIdx
            t == dragState.targetCellIdx
        IN  /\ grid'[s] = [grid[s] EXCEPT !.item = NoItem]
            /\ grid'[t] = [grid[t] EXCEPT !.item = grid[s].item]
            /\ \A c \in Cells \ {s, t} : grid'[c] = grid[c]
            /\ CropCount(grid') = CropCount(grid)]_vars

\* a crop has been relocated: the drop was no merge, the source is empty and
\* the target holds the dragged item
C3_Witness ==
  /\ dragState.phase = "impact"
  /\ dragState.targetCellIdx # NoCell
  /\ ~dragState.isMerge
  /\ grid[dragState.cellIdx].item = NoItem
  /\ grid[dragState.targetCellIdx].item = dragState.item

\* C4: for every merge applied to the board, if the level of the merged crops
\* is >= highestPlantEver at that moment, the level of the target increases
\* by exactly 1.
C4_DiscoveryGuard ==
  [][(MergeStep /\ grid[dragState.cellIdx].item.level >= highestPlantEver)
     => grid'[dragState.targetCellIdx].item.level
          = grid[dragState.targetCellIdx].item.level + 1]_vars

\* C5: for every merge applied to the board, the release was classified as a
\* merge (its level increase was rolled at that release) and the level the
\* target holds afterwards is the mergeResultLevel computed at the release.
C5_RollConsumedOnce ==
  [][MergeStep =>
       /\ dragState.isMerge
       /\ grid'[dragState.targetCellIdx].item.level = dragState.mergeResultLevel]_vars

----------------------------------------------------------------------------
(* Shop: src/components/UpgradeList.tsx handleUpgrade, src/App.tsx         *)
(* handleUnlockCell, handleFertilizeCell, StoreScreen onAddMoney           *)

AllIds == SeedsIds \cup CropsIds \cup HarvestIds

\* stateMap[upgrade.id].level of the row of upgrade id
levelOf(ss, cs, hs, id) ==
  IF id \in SeedsIds THEN ss[id]
  ELSE IF id \in CropsIds THEN cs[id]
  ELSE hs[id]

\* a row that never counts as maxed
isMaxedNever(id) == FALSE

\* isMaxed of the row of upgrade id
isMaxed(id) ==
  \/ id = "seed_quality" /\ isSeedQualityMaxed(seedsState, highestPlantEver)
  \/ id = "bonus_seeds" /\ isBonusSeedMaxed(seedsState)
  \/ id = "crop_merging" /\ isCropMergingMaxed(cropsState)
  \/ id = "plot_expansion" /\ isPlotExpansionMaxed(lockedCellCount)
  \/ id = "fertile_soil" /\ isFertileSoilMaxed(fertilizableCellCount)
  \/ id = "lucky_merge" /\ isLuckyMergeMaxed(cropsState)
  \/ id = "merge_harvest" /\ isMergeHarvestMaxed(cropsState)
  \/ id = "lucky_harvest" /\ isLuckyHarvestMaxed(harvestState)
  \/ id = "harvest_boost" /\ isHarvestBoostMaxed(harvestState)

\* handleUpgrade with the check of the funds left out
canPayAlways(cost) == TRUE

\* handleUpgrade: "if (money < cost) return" lets the purchase through
canPay(cost) == ~(money < cost)

\* an updater that raises the level and never the base tier
levelUpKeepingTier(prev, id) == [prev EXCEPT ![id] = @ + 1]

\* the updater handleUpgrade passes to the setter of the category
levelUp(prev, id) ==
  LET newLevel == prev[id] + 1
  IN  IF id = "seed_quality" /\ newLevel > 0 /\ newLevel % 10 = 0
      THEN [prev EXCEPT ![id] = newLevel, !.seedBaseTier = @ + 1]
      ELSE [prev EXCEPT ![id] = newLevel]

\* handleUnlockCell: lockedIndices
lockedIndices(g) == {idx \in Cells : g[idx].locked}

\* handleFertilizeCell: targetIndices (empty cells first, then cells with plants)
fertilizeTargetIndices(g) ==
  LET fertilizableEmptyIndices ==
        {idx \in Cells : ~g[idx].locked /\ ~g[idx].fertile /\ g[idx].item = NoItem}
      fertilizableWithPlantIndices ==
        {idx \in Cells : ~g[idx].locked /\ ~g[idx].fertile /\ g[idx].item # NoItem}
  IN  IF fertilizableEmptyIndices # {} THEN fertilizableEmptyIndices
      ELSE fertilizableWithPlantIndices

\* upgrade levels bought so far
purchasesMade ==
  seedsState.seed_production + seedsState.seed_quality + seedsState.seed_storage
    + seedsState.seed_surplus + seedsState.bonus_seeds
    + cropsState.crop_merging + (cropsState.plot_expansion - createInitialCropsState.plot_expansion)
    + cropsState.merge_harvest + cropsState.fertile_soil + cropsState.lucky_merge
    + harvestState.harvest_speed + harvestState.crop_value + harvestState.harvest_boost
    + harvestState.crop_synergy + harvestState.lucky_harvest

\* StoreScreen "+100,000 GOLD": onAddMoney(100000)
StoreGoldAmount == 100000

StoreAddMoney ==
  /\ money + StoreGoldAmount <= MaxMoney
  /\ money' = money + StoreGoldAmount
  /\ UNCHANGED <<seedsInStorage, activeCoinPanels, boardVars, seedMeterVars,
                 harvestMeterVars, ledgerVars, flightVars, shopTimerVars, pureVars, bonusSeedsFired, coinPanelViews, plantTaps, harvestTaps>>

\* click on the price button of the row of upgrade id:
\* !isMaxed && handleUpgrade(id, category, level)
PurchaseOf(id) ==
  /\ ~isMaxed(id)
  /\ LET cost == calculateUpgradeCost(id, levelOf(seedsState, cropsState, harvestState, id))
     IN  IF ~canPay(cost)
         THEN UNCHANGED <<money, ledgerVars, shopTimerVars>>
         ELSE /\ money' = money - cost
              /\ \E randomIdx \in
                     (IF id = "plot_expansion" /\ lockedIndices(grid) # {}
                      THEN lockedIndices(grid) ELSE {NoCell}) :
                   unlockTimers' = IF randomIdx = NoCell THEN unlockTimers
                                   ELSE BagAdd(unlockTimers, randomIdx)
              /\ \E randomIdx \in
                     (IF id = "fertile_soil" /\ fertilizeTargetIndices(grid) # {}
                      THEN fertilizeTargetIndices(grid) ELSE {NoCell}) :
                   fertilizeTimers' = IF randomIdx = NoCell THEN fertilizeTimers
                                      ELSE BagAdd(fertilizeTimers, randomIdx)
              /\ seedsState' = IF id \in SeedsIds THEN levelUp(seedsState, id)
                               ELSE seedsState
              /\ cropsState' = IF id \in CropsIds THEN levelUp(cropsState, id)
                               ELSE cropsState
              /\ harvestState' = IF id \in HarvestIds THEN levelUp(harvestState, id)
                                 ELSE harvestState
  /\ UNCHANGED <<seedsInStorage, activeCoinPanels, boardVars, seedMeterVars,
                 harvestMeterVars, flightVars, pureVars, bonusSeedsFired, coinPanelViews, plantTaps, harvestTaps>>

\* a click on the price button of any row
Purchase ==
  /\ purchasesMade < MaxPurchases
  /\ \E id \in AllIds : PurchaseOf(id)

\* handleUnlockCell: setTimeout(..., 200) unlocks the cell picked at the purchase
UnlockTimeout ==
  /\ \E randomIdx \in BagToSet(unlockTimers) :
       /\ grid' = [grid EXCEPT ![randomIdx].locked = FALSE]
       /\ unlockTimers' = BagRemove(unlockTimers, randomIdx)
  /\ UNCHANGED <<money, seedsInStorage, activeCoinPanels, highestPlantEver, dragState,
                 pendingMergeLevelIncreaseRef, nextItemId, seedMeterVars,
                 harvestMeterVars, ledgerVars, flightVars, fertilizeTimers, pureVars, bonusSeedsFired, coinPanelViews, plantTaps, harvestTaps>>

\* handleFertilizeCell: setTimeout(..., 200) marks the picked cell fertile
FertilizeTimeout ==
  /\ \E randomIdx \in BagToSet(fertilizeTimers) :
       /\ grid' = [grid EXCEPT ![randomIdx].fertile = TRUE]
       /\ fertilizeTimers' = BagRemove(fertilizeTimers, randomIdx)
  /\ UNCHANGED <<money, seedsInStorage, activeCoinPanels, highestPlantEver, dragState,
                 pendingMergeLevelIncreaseRef, nextItemId, seedMeterVars,
                 harvestMeterVars, ledgerVars, flightVars, unlockTimers, pureVars, bonusSeedsFired, coinPanelViews, plantTaps, harvestTaps>>

NextShop ==
  \/ StoreAddMoney
  \/ Purchase
  \/ UnlockTimeout
  \/ FertilizeTimeout

\* the shop from the state after construction
SpecShop == Init /\ [][NextShop]_vars

----------------------------------------------------------------------------
(* Claims about the shop, checked under SpecShop                           *)

\* C8: a purchase goes through only with money >= cost(currentLevel); it then
\* takes exactly cost(currentLevel) from money and raises the level of that one
\* upgrade by exactly 1, every other level unchanged; with money < cost no
\* level, no seedBaseTier and no cell changes, and money is never taken
\* without a level bought.
C8_Purchase ==
  [][/\ \A id \in AllIds :
          LET level == levelOf(seedsState, cropsState, harvestState, id)
              cost == calculateUpgradeCost(id, level)
          IN  levelOf(seedsState', cropsState', harvestState', id) # level
                => /\ money >= cost
                   /\ money' = money - cost
                   /\ levelOf(seedsState', cropsState', harvestState', id) = level + 1
                   /\ \A other \in AllIds \ {id} :
                        levelOf(seedsState', cropsState', harvestState', other)
                          = levelOf(seedsState, cropsState, harvestState, other)
     /\ money' < money
          => \E id \in AllIds :
               levelOf(seedsState', cropsState', harvestState', id)
                 # levelOf(seedsState, cropsState, harvestState, id)
     /\ (\A id \in AllIds :
           money < calculateUpgradeCost(id, levelOf(seedsState, cropsState, harvestState, id)))
          => /\ <<seedsState, cropsState, harvestState>>' = <<seedsState, cropsState, harvestState>>
             /\ money' >= money
             /\ unlockTimers' = unlockTimers /\ fertilizeTimers' = fertilizeTimers]_vars

\* lucky_merge has been bought once from the store's gold: 600 coins are gone
C8_Witness ==
  /\ cropsState.lucky_merge = 1
  /\ purchasesMade = 1
  /\ money = StoreGoldAmount - calculateUpgradeCost("lucky_merge", 0)

\* C9: every accepted plot_expansion purchase unlocks exactly one previously
\* locked cell: once no unlock is pending, the cells unlocked since the start
\* are as many as the plot_expansion levels bought.
C9_OneCellPerPurchase ==
  unlockTimers = EmptyBag
    => Cardinality(lockedIndices(generateInitialGrid)) - lockedCellCount
         = cropsState.plot_expansion - createInitialCropsState.plot_expansion

\* C30: every accepted fertile_soil purchase makes exactly one more cell
\* fertile: once no fertilize commit is pending, the fertile cells are as many
\* as the fertile_soil levels bought, and each of them is unlocked.
C30_OneFertilePerPurchase ==
  fertilizeTimers = EmptyBag
    => /\ Cardinality({c \in Cells : grid[c].fertile}) = cropsState.fertile_soil
       /\ \A c \in Cells : grid[c].fertile => ~grid[c].locked

----------------------------------------------------------------------------
(* The two meters: src/App.tsx seed and harvest auto-progress, tap zoom,   *)
(* 100% effects, handlePlantClick (empty storage), handleHarvestClick      *)

\* deltaMs * percentPerMs summed over a run of animation frames: the meter
\* value is kept in whole percent and one modelled tick adds 15 points
TickAmounts == {15}

\* seed auto-progress tick; skipped while a tap zoom runs.  A flash timer
\* (300 ms) fires before the tick that completes the next revolution: one
\* revolution of auto-fill takes 60 / (3 + level) seconds.
SeedTick ==
  /\ tapZoomRef = NoZoom
  /\ \E added \in TickAmounts :
       LET next == Min(100, seedProgressRef + added)
       IN  /\ next >= 100 => seedFlashTimers = 0 /\ seedBounceTrigger < MaxSeedBounce
           /\ seedProgressRef' = next
           /\ IF next >= 100
              THEN /\ seedProgress' = 100 /\ isSeedFlashing' = TRUE
                   /\ seedBounceTrigger' = seedBounceTrigger + 1
              ELSE UNCHANGED <<seedProgress, isSeedFlashing, seedBounceTrigger>>
  /\ UNCHANGED <<money, seedsInStorage, activeCoinPanels, boardVars, tapZoomRef,
                 seedFlashTimers, harvestMeterVars, ledgerVars, flightVars,
                 shopTimerVars, pureVars, bonusSeedsFired, coinPanelViews, plantTaps, harvestTaps>>

\* last frame of the seed tap zoom (t >= 1)
SeedZoomEnd ==
  /\ tapZoomRef # NoZoom
  /\ seedProgressRef' = tapZoomRef.end
  /\ tapZoomRef' = NoZoom
  /\ IF tapZoomRef.end >= 100
     THEN seedProgress' = 100 /\ isSeedFlashing' = TRUE
     ELSE UNCHANGED <<seedProgress, isSeedFlashing>>
  /\ UNCHANGED <<money, seedsInStorage, activeCoinPanels, boardVars, seedFlashTimers,
                 seedBounceTrigger, harvestMeterVars, ledgerVars, flightVars, shopTimerVars, pureVars, bonusSeedsFired, coinPanelViews, plantTaps, harvestTaps>>

\* a seed 100% effect that adds the seed without looking at the capacity
seedEffectStorageUncapped(storage, storageMax) == storage + 1

\* the seed 100% effect: setSeedsInStorage((prev) => Math.min(seedStorageMax, prev + 1))
seedEffectStorage(storage, storageMax) == Min(storageMax, storage + 1)

\* the seed 100% effect: one seed to the storage, or the surplus coin panel
SeedEffect ==
  /\ seedProgress = 100 /\ isSeedFlashing
  /\ seedProgressRef' = 0
  /\ seedProgress' = 0
  /\ seedFlashTimers' = seedFlashTimers + 1
  /\ LET isStorageFull == seedsInStorage >= seedStorageMax
         surplusValue == getSeedSurplusValue(seedsState)
     IN  IF isStorageFull /\ surplusValue > 0
         THEN /\ activeCoinPanels' =
                   BagAdd(activeCoinPanels, [kind |-> "seed-surplus", value |-> surplusValue])
              /\ UNCHANGED seedsInStorage
         ELSE /\ seedsInStorage' = seedEffectStorage(seedsInStorage, seedStorageMax)
              /\ UNCHANGED activeCoinPanels
  /\ UNCHANGED <<money, boardVars, isSeedFlashing, tapZoomRef, seedBounceTrigger,
                 harvestMeterVars,
                 ledgerVars, flightVars, shopTimerVars, pureVars, bonusSeedsFired, coinPanelViews, plantTaps, harvestTaps>>

\* setTimeout(() => setIsSeedFlashing(false), 300)
SeedFlashOff ==
  /\ seedFlashTimers > 0
  /\ seedFlashTimers' = seedFlashTimers - 1
  /\ isSeedFlashing' = FALSE
  /\ UNCHANGED <<money, seedsInStorage, activeCoinPanels, boardVars, seedProgress,
                 seedProgressRef, tapZoomRef, seedBounceTrigger, harvestMeterVars, ledgerVars, flightVars,
                 shopTimerVars, pureVars, bonusSeedsFired, coinPanelViews, plantTaps, harvestTaps>>

\* a seed tap past 100% that keeps no remainder
seedTapRemainderDropped(totalAfterTap) == 0

\* handlePlantClick, overflow: remainder = totalAfterTap - 100
seedTapRemainder(totalAfterTap) == totalAfterTap - 100

\* handlePlantClick with an empty storage: +15 on the seed meter; while the
\* button flashes the handler returns without a change
PlantTapProgress ==
  /\ ~(seedsInStorage > 0)
  /\ plantTaps.n < MaxTaps
  /\ plantTaps' = [n |-> plantTaps.n + 1,
                   cut |-> IF ~isSeedFlashing /\ tapZoomRef # NoZoom
                           THEN plantTaps.cut + 1 ELSE plantTaps.cut]
  /\ IF isSeedFlashing
     THEN UNCHANGED <<seedsInStorage, seedProgressRef, seedProgress, isSeedFlashing,
                      tapZoomRef, seedBounceTrigger>>
     ELSE
       LET start == Max(0, seedProgressRef)
           totalAfterTap == start + 15
       IN  IF totalAfterTap > 100
           THEN /\ seedsInStorage' = Min(seedStorageMax, seedsInStorage + 1)
                /\ seedProgressRef' = 0
                /\ seedProgress' = 0
                /\ isSeedFlashing' = FALSE
                /\ seedBounceTrigger' = seedBounceTrigger + 1
                /\ tapZoomRef' = [start |-> 0, end |-> seedTapRemainder(totalAfterTap)]
           ELSE /\ tapZoomRef' = [start |-> start, end |-> Min(100, totalAfterTap)]
                /\ UNCHANGED <<seedsInStorage, seedProgressRef, seedProgress, isSeedFlashing,
                               seedBounceTrigger>>
  /\ UNCHANGED <<money, activeCoinPanels, boardVars, seedFlashTimers, harvestMeterVars,
                 ledgerVars, flightVars, shopTimerVars, pureVars, bonusSeedsFired, coinPanelViews, harvestTaps>>

\* harvest auto-progress tick; skipped while a tap zoom runs.  The timers of
\* the harvest effect (at most 600 ms) fire before the tick that completes the
\* next revolution.
HarvestTick ==
  /\ harvestTapZoomRef = NoZoom
  /\ \E added \in TickAmounts :
       LET next == Min(100, harvestProgressRef + added)
       IN  /\ next >= 100 => harvestTimers = NoTimers /\ harvestBounceTrigger < MaxBounce
           /\ harvestProgressRef' = next
           /\ IF next >= 100
              THEN harvestProgress' = 100 /\ isHarvestFlashing' = TRUE
              ELSE UNCHANGED <<harvestProgress, isHarvestFlashing>>
  /\ UNCHANGED <<money, seedsInStorage, activeCoinPanels, boardVars, seedMeterVars,
                 harvestTapZoomRef, harvestBounceTrigger, harvestTimers, ledgerVars,
                 flightVars, shopTimerVars, pureVars, bonusSeedsFired, coinPanelViews, plantTaps, harvestTaps>>

\* last frame of the harvest tap zoom (t >= 1)
HarvestZoomEnd ==
  /\ harvestTapZoomRef # NoZoom
  /\ harvestTapZoomRef.end >= 100 => harvestTimers = NoTimers
  /\ harvestProgressRef' = harvestTapZoomRef.end
  /\ harvestTapZoomRef' = NoZoom
  /\ IF harvestTapZoomRef.end >= 100
     THEN harvestProgress' = 100 /\ isHarvestFlashing' = TRUE
     ELSE UNCHANGED <<harvestProgress, isHarvestFlashing>>
  /\ UNCHANGED <<money, seedsInStorage, activeCoinPanels, boardVars, seedMeterVars,
                 harvestBounceTrigger, harvestTimers, ledgerVars, flightVars,
                 shopTimerVars, pureVars, bonusSeedsFired, coinPanelViews, plantTaps, harvestTaps>>

\* a harvest tap without the cap at 100
harvestTapEndUncapped(current) == current + 15

\* handleHarvestClick: next = Math.min(100, current + 15)
harvestTapEnd(current) == Min(100, current + 15)

\* handleHarvestClick: +15 on the harvest meter; while the button flashes the
\* handler returns without a change
HarvestTap ==
  /\ harvestTaps < MaxHarvestTaps
  /\ harvestTaps' = harvestTaps + 1
  /\ IF isHarvestFlashing
     THEN UNCHANGED harvestTapZoomRef
     ELSE /\ harvestTapEnd(harvestProgressRef) >= 100 => harvestBounceTrigger < MaxBounce
          /\ harvestTapZoomRef' = [start |-> harvestProgressRef,
                                   end |-> harvestTapEnd(harvestProgressRef)]
  /\ UNCHANGED <<money, seedsInStorage, activeCoinPanels, boardVars, seedMeterVars,
                 harvestProgress, isHarvestFlashing, harvestProgressRef,
                 harvestBounceTrigger, harvestTimers, ledgerVars, flightVars,
                 shopTimerVars, pureVars, bonusSeedsFired, coinPanelViews, plantTaps>>

\* performHarvest: one coin panel for every crop on the board (the crops stay)
harvestPanels(g, hs) ==
  PanelsOf({c \in Cells : g[c].item # NoItem},
           [c \in Cells |->
              [kind |-> "harvest",
               value |-> IF g[c].item = NoItem THEN 0 ELSE cellHarvestValue(g, c, hs)]])

\* a harvest 100% effect that leaves the meter where it is
harvestEffectResetSkipped(ref) == ref

\* the harvest 100% effect: harvestProgressRef.current = 0
harvestEffectReset(ref) == 0

\* the harvest 100% effect: harvest pass, lucky roll, reset, flash timers
HarvestEffect ==
  /\ harvestProgress = 100 /\ isHarvestFlashing
  /\ activeCoinPanels' = activeCoinPanels (+) harvestPanels(grid, harvestState)
  /\ harvestBounceTrigger' = harvestBounceTrigger + 1
  /\ \E roll \in RollValues :
       LET luckyChance == getLuckyHarvestChance(harvestState)
           isLucky == luckyChance > 0 /\ roll < luckyChance
       IN  harvestTimers' =
             IF isLucky
             THEN [stage |-> "luckyBlink", panels |-> harvestPanels(grid, harvestState)]
             ELSE [stage |-> "off", panels |-> EmptyBag]
  /\ harvestProgressRef' = harvestEffectReset(harvestProgressRef)
  /\ harvestProgress' = 0
  /\ UNCHANGED <<money, seedsInStorage, boardVars, seedMeterVars, isHarvestFlashing,
                 harvestTapZoomRef, ledgerVars, flightVars, shopTimerVars, pureVars, bonusSeedsFired, coinPanelViews, plantTaps, harvestTaps>>

\* lucky harvest, setTimeout(..., 150): setIsHarvestFlashing(false)
LuckyBlink ==
  /\ harvestTimers.stage = "luckyBlink"
  /\ isHarvestFlashing' = FALSE
  /\ harvestTimers' = [harvestTimers EXCEPT !.stage = "luckyHarvest"]
  /\ UNCHANGED <<money, seedsInStorage, activeCoinPanels, boardVars, seedMeterVars,
                 harvestProgress, harvestProgressRef, harvestTapZoomRef,
                 harvestBounceTrigger, ledgerVars, flightVars, shopTimerVars, pureVars, bonusSeedsFired, coinPanelViews, plantTaps, harvestTaps>>

\* lucky harvest, setTimeout(..., 300): flash, bounce and the second harvest pass
LuckyHarvest ==
  /\ harvestTimers.stage = "luckyHarvest"
  /\ isHarvestFlashing' = TRUE
  /\ harvestBounceTrigger' = harvestBounceTrigger + 1
  /\ activeCoinPanels' = activeCoinPanels (+) harvestTimers.panels
  /\ harvestTimers' = [stage |-> "luckyOff", panels |-> EmptyBag]
  /\ UNCHANGED <<money, seedsInStorage, boardVars, seedMeterVars, harvestProgress,
                 harvestProgressRef, harvestTapZoomRef, ledgerVars, flightVars,
                 shopTimerVars, pureVars, bonusSeedsFired, coinPanelViews, plantTaps, harvestTaps>>

\* setTimeout(() => setIsHarvestFlashing(false), isLucky ? 600 : 300)
HarvestFlashOff ==
  /\ harvestTimers.stage \in {"off", "luckyOff"}
  /\ isHarvestFlashing' = FALSE
  /\ harvestTimers' = NoTimers
  /\ UNCHANGED <<money, seedsInStorage, activeCoinPanels, boardVars, seedMeterVars,
                 harvestProgress, harvestProgressRef, harvestTapZoomRef,
                 harvestBounceTrigger, ledgerVars, flightVars, shopTimerVars, pureVars, bonusSeedsFired, coinPanelViews, plantTaps, harvestTaps>>

\* A session in which the store's gold has bought lucky_harvest, six taps and
\* the auto-fill have produced one seed, and that seed has been planted on the
\* centre cell; both meters are within their first percent.
InitMeter ==
  /\ money = StoreGoldAmount - calculateUpgradeCost("lucky_harvest", 0)
  /\ grid = [generateInitialGrid EXCEPT ![9].item = [id |-> 1, level |-> 1]]
  /\ seedsState = createInitialSeedsState
  /\ cropsState = createInitialCropsState
  /\ harvestState = [createInitialHarvestState EXCEPT !.lucky_harvest = 1]
  /\ highestPlantEver = 1
  /\ seedsInStorage = 0
  /\ seedProgress = 0 /\ isSeedFlashing = FALSE /\ seedProgressRef = 0
  /\ tapZoomRef = NoZoom /\ seedFlashTimers = 0 /\ seedBounceTrigger = 0
  /\ harvestProgress = 0 /\ isHarvestFlashing = FALSE /\ harvestProgressRef = 0
  /\ harvestTapZoomRef = NoZoom /\ harvestBounceTrigger = 0 /\ harvestTimers = NoTimers
  /\ activeProjectiles = EmptyBag /\ bonusSeedTimers = EmptyBag
  /\ activeCoinPanels = EmptyBag
  /\ dragState = NoDrag
  /\ pendingMergeLevelIncreaseRef = 1
  /\ unlockTimers = EmptyBag /\ fertilizeTimers = EmptyBag
  /\ nextItemId = 2
  /\ pureFn = "none" /\ pureArg = 0 /\ pureOut = -1
  /\ plantTaps = NoTaps
  /\ harvestTaps = 0
  /\ bonusSeedsFired = NoBonusSeeds
  /\ coinPanelViews = EmptyBag

NextMeter ==
  \/ SeedTick
  \/ SeedZoomEnd
  \/ SeedEffect
  \/ SeedFlashOff
  \/ PlantTapProgress
  \/ HarvestTick
  \/ HarvestZoomEnd
  \/ HarvestEffect
  \/ LuckyBlink
  \/ LuckyHarvest
  \/ HarvestFlashOff
  \/ HarvestTap

SpecMeter == InitMeter /\ [][NextMeter]_vars

----------------------------------------------------------------------------
(* Claims about the meters, checked under SpecMeter                        *)

\* the seed meter shows a completed revolution that its effect has not yet handled
SeedCompleted == seedProgress = 100 /\ isSeedFlashing

\* the harvest meter shows a completed revolution that its effect has not yet handled
HarvestCompleted == harvestProgress = 100 /\ isHarvestFlashing

\* a step that produces a seed or a surplus coin panel
SeedEventStep ==
  \/ seedsInStorage' > seedsInStorage
  \/ \E p \in BagToSet(activeCoinPanels') :
       p.kind = "seed-surplus" /\ CopiesIn(p, activeCoinPanels') > CopiesIn(p, activeCoinPanels)

\* a step that runs a harvest pass
HarvestPassStep == harvestBounceTrigger' # harvestBounceTrigger

\* C6: a production event fires only from a completed revolution and resets
\* the meter in the same step, so a second event needs a new revolution; and a
\* completed revolution is left only by the step that fires its event.  Seed
\* meter: the event is the seed added to the storage (or the surplus panel).
\* Harvest meter: the event is the harvest pass of the 100% effect; the second
\* pass of a lucky harvest is fired by its timer and leaves the meter alone.
C6_EventOncePerCompletion ==
  [][/\ SeedEventStep
          => /\ \/ SeedCompleted /\ seedProgressRef >= 100
                \/ ~SeedCompleted /\ seedProgressRef + 15 > 100
             /\ seedsInStorage' = Min(seedStorageMax, seedsInStorage + 1)
             /\ seedProgressRef' = 0 /\ seedProgress' = 0
             /\ ~SeedCompleted'
     /\ (SeedCompleted /\ ~SeedCompleted')
          => /\ seedProgressRef' = 0 /\ seedProgress' = 0
             /\ seedsInStorage' = Min(seedStorageMax, seedsInStorage + 1)
     /\ HarvestPassStep
          => /\ harvestBounceTrigger' = harvestBounceTrigger + 1
             /\ activeCoinPanels' = activeCoinPanels (+) harvestPanels(grid, harvestState)
             /\ \/ /\ HarvestCompleted /\ harvestProgressRef >= 100
                   /\ harvestProgressRef' = 0 /\ harvestProgress' = 0
                   /\ ~HarvestCompleted'
                \/ /\ ~HarvestCompleted /\ harvestTimers.stage = "luckyHarvest"
                   /\ harvestProgressRef' = harvestProgressRef
                   /\ harvestProgress' = harvestProgress
     /\ (HarvestCompleted /\ ~HarvestCompleted')
          => /\ harvestProgressRef' = 0 /\ harvestProgress' = 0
             /\ harvestBounceTrigger' = harvestBounceTrigger + 1]_vars

\* both effects have run once: one seed in the storage, one harvest pass, both
\* meters back at 0 and still flashing
C6_Witness ==
  /\ seedsInStorage = 1 /\ seedProgressRef = 0 /\ seedProgress = 0
  /\ isSeedFlashing /\ seedFlashTimers = 1
  /\ harvestBounceTrigger = 1 /\ harvestProgressRef = 0 /\ harvestProgress = 0
  /\ isHarvestFlashing /\ harvestTimers.stage = "off"

\* a tap on the seed button with an empty storage and the meter at 90%
SeedTapAt90 ==
  /\ seedsInStorage = 0 /\ ~isSeedFlashing /\ seedProgressRef = 90
  /\ tapZoomRef' # tapZoomRef

\* a tap on the harvest button with the meter at 90%
HarvestTapAt90 ==
  /\ ~isHarvestFlashing /\ harvestProgressRef = 90
  /\ harvestTapZoomRef' # harvestTapZoomRef
  /\ harvestTapZoomRef'.start = 90

\* C7: a tap at 90% fires exactly one event and keeps the excess
\* over 100 for both meters: the seed tap adds one seed and zooms from 0 to 5;
\* the harvest tap keeps the excess 5 in the zoom it starts (ending at 105, or
\* at 5 after a reset).
C7_TapOverflowBothMeters ==
  [][/\ SeedTapAt90
          => /\ seedsInStorage' = seedsInStorage + 1
             /\ seedProgressRef' = 0 /\ ~SeedCompleted'
             /\ tapZoomRef' = [start |-> 0, end |-> 5]
     /\ HarvestTapAt90 => harvestTapZoomRef'.end \in {5, 105}]_vars

----------------------------------------------------------------------------
(* The chance and percent functions of the ledgers, applied to any level   *)

\* the ledgers with upgrade id at the given level
seedsStateAt(id, level) == [createInitialSeedsState EXCEPT ![id] = level]
cropsStateAt(id, level) == [createInitialCropsState EXCEPT ![id] = level]
harvestStateAt(id, level) == [createInitialHarvestState EXCEPT ![id] = level]

\* the state after construction, with a level to evaluate the functions at
InitPure ==
  /\ money = 0
  /\ grid = generateInitialGrid
  /\ seedsState = createInitialSeedsState
  /\ cropsState = createInitialCropsState
  /\ harvestState = createInitialHarvestState
  /\ highestPlantEver = 1
  /\ seedsInStorage = 0
  /\ seedProgress = 0 /\ isSeedFlashing = FALSE /\ seedProgressRef = 0
  /\ tapZoomRef = NoZoom /\ seedFlashTimers = 0 /\ seedBounceTrigger = 0
  /\ harvestProgress = 0 /\ isHarvestFlashing = FALSE /\ harvestProgressRef = 0
  /\ harvestTapZoomRef = NoZoom /\ harvestBounceTrigger = 0 /\ harvestTimers = NoTimers
  /\ activeProjectiles = EmptyBag /\ bonusSeedTimers = EmptyBag
  /\ activeCoinPanels = EmptyBag
  /\ dragState = NoDrag
  /\ pendingMergeLevelIncreaseRef = 1
  /\ unlockTimers = EmptyBag /\ fertilizeTimers = EmptyBag
  /\ nextItemId = 1
  /\ pureFn = "none" /\ pureArg \in 0..MaxLevelArg /\ pureOut = -1
  /\ plantTaps = NoTaps
  /\ harvestTaps = 0
  /\ bonusSeedsFired = NoBonusSeeds
  /\ coinPanelViews = EmptyBag

pureFrame ==
  UNCHANGED <<money, seedsInStorage, activeCoinPanels, boardVars, seedMeterVars,
              harvestMeterVars, ledgerVars, flightVars, shopTimerVars, pureArg,
              plantTaps, harvestTaps, bonusSeedsFired, coinPanelViews>>

EvalBonusSeedChance ==
  /\ pureFn = "none"
  /\ pureFn' = "getBonusSeedChance"
  /\ pureOut' = getBonusSeedChance(seedsStateAt("bonus_seeds", pureArg))
  /\ pureFrame

EvalLuckyMergeChance ==
  /\ pureFn = "none"
  /\ pureFn' = "getLuckyMergeChance"
  /\ pureOut' = getLuckyMergeChance(cropsStateAt("lucky_merge", pureArg))
  /\ pureFrame

EvalMergeHarvestChance ==
  /\ pureFn = "none"
  /\ pureFn' = "getMergeHarvestChance"
  /\ pureOut' = getMergeHarvestChance(cropsStateAt("merge_harvest", pureArg))
  /\ pureFrame

EvalLuckyHarvestChance ==
  /\ pureFn = "none"
  /\ pureFn' = "getLuckyHarvestChance"
  /\ pureOut' = getLuckyHarvestChance(harvestStateAt("lucky_harvest", pureArg))
  /\ pureFrame

EvalHarvestBoostPercent ==
  /\ pureFn = "none"
  /\ pureFn' = "getHarvestBoostPercent"
  /\ pureOut' = getHarvestBoostPercent(harvestStateAt("harvest_boost", pureArg))
  /\ pureFrame

\* getCoinValueForLevel at a crop level (crops have level 1 or more)
EvalCoinValue ==
  /\ pureFn = "none"
  /\ pureArg >= 1
  /\ pureFn' = "getCoinValueForLevel"
  /\ pureOut' = getCoinValueForLevel(pureArg)
  /\ pureFrame

\* calculateUpgradeCost of a row with exponential pricing (every row but
\* seed_quality), at a level the tabulated prices cover together with the next;
\* pureFn names the row
EvalUpgradeCost ==
  /\ pureFn = "none"
  /\ \E id \in AllIds \ {"seed_quality"} :
       /\ pureArg + 2 <= Len(UpgradeCostTable[id])
       /\ pureFn' = id
       /\ pureOut' = calculateUpgradeCost(id, pureArg)
  /\ pureFrame

NextPure ==
  \/ EvalBonusSeedChance
  \/ EvalLuckyMergeChance
  \/ EvalMergeHarvestChance
  \/ EvalLuckyHarvestChance
  \/ EvalHarvestBoostPercent
  \/ EvalCoinValue
  \/ EvalUpgradeCost

SpecPure == InitPure /\ [][NextPure]_vars

\* C10: for every level, also above 10, the bonus seed, lucky merge, merge
\* harvest and lucky harvest chances are at most 50 and the harvest boost
\* percent is at most 20.
C10_Caps ==
  /\ pureFn \in {"getBonusSeedChance", "getLuckyMergeChance", "getMergeHarvestChance",
                 "getLuckyHarvestChance"} => pureOut <= 50
  /\ pureFn = "getHarvestBoostPercent" => pureOut <= 20


\* C23: coinValue(1) = 5 and, for every level L >= 1, coinValue(L + 1) is
\* twice coinValue(L).
C23_CoinValueDoubles ==
  pureFn = "getCoinValueForLevel"
    => /\ pureArg = 1 => pureOut = 5
       /\ getCoinValueForLevel(pureArg + 1) = 2 * pureOut

\* the coin value of level 4 has been evaluated: 40
C23_Witness ==
  /\ pureFn = "getCoinValueForLevel"
  /\ pureArg = 4
  /\ pureOut = 40

\* C24: for every row with exponential pricing and every level L, the price
\* at level L + 1 is strictly greater than the price at level L.
C24_CostIncreasing ==
  pureFn \in AllIds \ {"seed_quality"}
    => calculateUpgradeCost(pureFn, pureArg + 1) > pureOut

\* the price of seed_storage at level 1 has been evaluated: 45, five more than
\* at level 0 and ten less than at level 2, the smallest steps of the table
C24_Witness ==
  /\ pureFn = "seed_storage"
  /\ pureArg = 1
  /\ pureOut = 45
  /\ calculateUpgradeCost("seed_storage", 0) = 40

\* C25: the board after construction has exactly 19 cells, at the axial
\* coordinates with q, r and q + r in [-2, 2] (so q and q + r lie in [-2, 2]
\* for every cell), each at its own coordinates and all empty; a cell is locked
\* iff its hex distance (|q| + |r| + |q + r|) / 2 from the centre is 2, which
\* makes 12 locked and 7 unlocked cells.
C25_InitialBoard ==
  grid = generateInitialGrid
    => /\ Cardinality(DOMAIN grid) = 19
       /\ {<<CellQ(c), CellR(c)>> : c \in DOMAIN grid}
            = {<<q, r>> \in (-2..2) \X (-2..2) : q + r \in -2..2}
       /\ \A c \in DOMAIN grid : CellQ(c) \in -2..2 /\ CellQ(c) + CellR(c) \in -2..2
       /\ \A c, d \in DOMAIN grid :
            (CellQ(c) = CellQ(d) /\ CellR(c) = CellR(d)) => c = d
       /\ \A c \in DOMAIN grid : grid[c].item = NoItem
       /\ \A c \in DOMAIN grid :
            grid[c].locked
              <=> (Abs(CellQ(c)) + Abs(CellR(c)) + Abs(CellQ(c) + CellR(c))) = 4
       /\ Cardinality({c \in DOMAIN grid : grid[c].locked}) = 12
       /\ Cardinality({c \in DOMAIN grid : ~grid[c].locked}) = 7

\* the board after construction: the centre and its six neighbours are
\* unlocked, the corner (-2, 0) is locked
C25_Witness ==
  /\ grid = generateInitialGrid
  /\ {c \in Cells : ~grid[c].locked} = {4, 5, 8, 9, 10, 13, 14}
  /\ CellQ(0) = -2 /\ CellR(0) = 0 /\ grid[0].locked
  /\ pureFn = "none"

----------------------------------------------------------------------------
(* A session played by taps alone, from the state after construction: the  *)
(* auto-fill of the seed meter contributes nothing                         *)

NextTaps ==
  \/ PlantTapProgress
  \/ SeedZoomEnd
  \/ PlantTapFire
  \/ ProjectileImpact
  \/ HarvestTick
  \/ HarvestTap
  \/ HarvestZoomEnd
  \/ HarvestEffect
  \/ HarvestFlashOff
  \/ CoinPanelImpact

SpecTaps == Init /\ [][NextTaps]_vars

----------------------------------------------------------------------------
(* The seed meter, the storage and the plant button on a nearly full board *)

\* money spent on the first `level` levels of upgrade id
RECURSIVE spentOn(_, _)
spentOn(id, level) ==
  IF level = 0 THEN 0
  ELSE calculateUpgradeCost(id, level - 1) + spentOn(id, level - 1)

\* A session in which the store's gold has bought s levels of seed_surplus
\* (with one level of bonus_seeds for s = 1, and one level of seed_storage for
\* s = MaxSurplus), and six level-1 seeds have been planted: of the unlocked
\* cells only the centre cell 9 is empty.  The storage holds all but one of
\* the seeds it has room for and both meters are within their first percent.
InitSeed ==
  /\ \E s \in 0..MaxSurplus :
       LET t == IF s = MaxSurplus THEN 1 ELSE 0
           b == IF s = 1 THEN 1 ELSE 0
       IN
       /\ seedsState = [createInitialSeedsState EXCEPT !.seed_surplus = s,
                                                       !.seed_storage = t,
                                                       !.bonus_seeds = b]
       /\ money = StoreGoldAmount - spentOn("seed_surplus", s)
                    - spentOn("seed_storage", t) - spentOn("bonus_seeds", b)
  /\ grid = [generateInitialGrid EXCEPT ![4].item = [id |-> 1, level |-> 1],
                                        ![5].item = [id |-> 2, level |-> 1],
                                        ![8].item = [id |-> 3, level |-> 1],
                                        ![10].item = [id |-> 4, level |-> 1],
                                        ![13].item = [id |-> 5, level |-> 1],
                                        ![14].item = [id |-> 6, level |-> 1]]
  /\ cropsState = createInitialCropsState
  /\ harvestState = createInitialHarvestState
  /\ highestPlantEver = 1
  /\ seedsInStorage = seedsState.seed_storage
  /\ seedProgress = 0 /\ isSeedFlashing = FALSE /\ seedProgressRef = 0
  /\ tapZoomRef = NoZoom /\ seedFlashTimers = 0 /\ seedBounceTrigger = 0
  /\ harvestProgress = 0 /\ isHarvestFlashing = FALSE /\ harvestProgressRef = 0
  /\ harvestTapZoomRef = NoZoom /\ harvestBounceTrigger = 0 /\ harvestTimers = NoTimers
  /\ activeProjectiles = EmptyBag /\ bonusSeedTimers = EmptyBag
  /\ activeCoinPanels = EmptyBag
  /\ dragState = NoDrag
  /\ pendingMergeLevelIncreaseRef = 1
  /\ unlockTimers = EmptyBag /\ fertilizeTimers = EmptyBag
  /\ nextItemId = 7
  /\ pureFn = "none" /\ pureArg = 0 /\ pureOut = -1
  /\ plantTaps = NoTaps
  /\ harvestTaps = 0
  /\ bonusSeedsFired = NoBonusSeeds
  /\ coinPanelViews = EmptyBag

NextSeed ==
  \/ SeedTick
  \/ SeedZoomEnd
  \/ SeedEffect
  \/ SeedFlashOff
  \/ PlantTapProgress
  \/ PlantTapFire
  \/ BonusSeedTimeout
  \/ ProjectileImpact
  \/ CoinPanelImpact

SpecSeed == InitSeed /\ [][NextSeed]_vars

\* C12: when the seed meter completes (the 100% effect handles a completed
\* revolution): with room in the storage, seedsInStorage grows by exactly 1 and
\* no money is paid; with a full storage and seed_surplus level L > 0, exactly
\* one coin panel of value 10 * 2^(L-1) is paid out and seedsInStorage is
\* unchanged; with a full storage and seed_surplus at level 0 neither changes.
\* A completion by an overflowing tap (the storage is empty then) adds exactly
\* one seed.  Money paid out is on its way to the wallet as a coin panel, which
\* adds exactly its value to money when it arrives; nothing else changes money.
C12_SeedCompletion ==
  [][/\ (SeedCompleted /\ ~SeedCompleted')
          => IF seedsInStorage < 1 + seedsState.seed_storage
             THEN /\ seedsInStorage' = seedsInStorage + 1
                  /\ money' = money /\ activeCoinPanels' = activeCoinPanels
             ELSE IF seedsState.seed_surplus > 0
             THEN /\ seedsInStorage' = seedsInStorage
                  /\ money' = money
                  /\ activeCoinPanels' =
                       activeCoinPanels
                         (+) SetToBag({[kind |-> "seed-surplus",
                                        value |-> 10 * Pow2(seedsState.seed_surplus - 1)]})
             ELSE /\ seedsInStorage' = seedsInStorage
                  /\ money' = money /\ activeCoinPanels' = activeCoinPanels
     /\ (seedBounceTrigger' # seedBounceTrigger /\ plantTaps'.n # plantTaps.n)
          => /\ seedsInStorage < 1 + seedsState.seed_storage
             /\ seedsInStorage' = seedsInStorage + 1
             /\ money' = money /\ activeCoinPanels' = activeCoinPanels
     /\ (seedsInStorage' > seedsInStorage)
          => \/ SeedCompleted /\ ~SeedCompleted'
             \/ seedBounceTrigger' # seedBounceTrigger /\ plantTaps'.n # plantTaps.n
     /\ (money' # money)
          => \E coin \in BagToSet(activeCoinPanels) :
               /\ activeCoinPanels' = activeCoinPanels (-) SetToBag({coin})
               /\ money' = money + coin.value]_vars

\* the storage is full, seed_surplus is at level 2, and the surplus of one
\* more revolution has arrived in the wallet: 20 coins
C12_Witness ==
  /\ seedsState.seed_surplus = 2
  /\ seedsInStorage = 1 + seedsState.seed_storage
  /\ seedBounceTrigger = 2
  /\ activeCoinPanels = EmptyBag
  /\ money = StoreGoldAmount - spentOn("seed_surplus", 2)
               - spentOn("seed_storage", seedsState.seed_storage)
               - spentOn("bonus_seeds", seedsState.bonus_seeds) + 20

\* a call of handlePlantClick while the storage holds a seed
StoredSeedTap == plantTaps'.n # plantTaps.n /\ seedsInStorage > 0

\* C13: a plant tap while seedsInStorage > 0 and an unlocked empty cell exists
\* takes exactly 1 from seedsInStorage and fires one seed at a cell that is
\* unlocked and empty at the time of the tap, and leaves the seed meter and the
\* board as they are; a plant tap while seedsInStorage > 0 and no unlocked empty
\* cell exists changes neither the storage, the seed meter, the board nor the
\* seeds in flight.
C13_StoredSeedTap ==
  [][StoredSeedTap =>
       /\ seedMeterVars' = seedMeterVars
       /\ grid' = grid
       /\ money' = money
       /\ IF \E c \in Cells : ~grid[c].locked /\ grid[c].item = NoItem
          THEN /\ seedsInStorage' = seedsInStorage - 1
               /\ \E c \in Cells, level \in {seedsState.seedBaseTier, seedsState.seedBaseTier + 1} :
                    /\ ~grid[c].locked /\ grid[c].item = NoItem
                    /\ activeProjectiles' =
                         activeProjectiles (+) SetToBag({[targetIdx |-> c, plantLevel |-> level]})
          ELSE /\ seedsInStorage' = seedsInStorage
               /\ activeProjectiles' = activeProjectiles
               /\ bonusSeedTimers' = bonusSeedTimers]_vars

\* the board is full, a seed is stored, and of the two taps made one has fired
\* the seed that filled the last cell
C13_Witness ==
  /\ \A c \in Cells : grid[c].locked \/ grid[c].item # NoItem
  /\ seedsInStorage = 1
  /\ seedsState.seed_storage = 0
  /\ plantTaps.n = 2
  /\ activeProjectiles = EmptyBag

\* C18: in every reachable state 0 <= seedsInStorage <= 1 + seed_storage.level.
C18_StorageBounds ==
  /\ 0 <= seedsInStorage
  /\ seedsInStorage <= 1 + seedsState.seed_storage

\* a storage of capacity 2 is full and a further revolution has been handled
C18_Witness ==
  /\ seedsState.seed_storage = 1
  /\ seedsInStorage = 2
  /\ seedBounceTrigger = 2
  /\ ~SeedCompleted

----------------------------------------------------------------------------
(* The harvest meter over boards with synergy and fertile cells            *)

\* Boards of a running session (cells 4, 5, 8, 9, 10, 13, 14 are unlocked):
\*  1: one level-3 crop on the centre cell;
\*  2: two adjacent level-2 crops on 9 and 10, a level-1 crop on 4 next to 9,
\*     cell 10 fertile;
\*  3: two adjacent level-1 crops on 8 and 13, a level-3 crop on the fertile
\*     cell 14, the empty cell 5 fertile.
HarvestBoards ==
  <<[generateInitialGrid EXCEPT ![9].item = [id |-> 1, level |-> 3]],
    [generateInitialGrid EXCEPT ![9].item = [id |-> 1, level |-> 2],
                                ![10].item = [id |-> 2, level |-> 2],
                                ![10].fertile = TRUE,
                                ![4].item = [id |-> 3, level |-> 1]],
    [generateInitialGrid EXCEPT ![8].item = [id |-> 1, level |-> 1],
                                ![13].item = [id |-> 2, level |-> 1],
                                ![14].item = [id |-> 3, level |-> 3],
                                ![14].fertile = TRUE,
                                ![5].fertile = TRUE]>>

\* the highest crop level on board g
highestOn(g) ==
  CHOOSE m \in 1..3 :
    /\ \E c \in Cells : g[c].item.level = m
    /\ \A c \in Cells : g[c].item.level <= m

\* A session in which the store's gold has bought crop_value, crop_synergy,
\* lucky_harvest and fertile_soil levels and planting and merging have produced
\* one of the boards above; the harvest meter is within its first percent.
InitHarvest ==
  /\ \E b \in 1..Len(HarvestBoards),
        cv \in 0..MaxHarvestLevel, cs \in 0..MaxHarvestLevel, lh \in 0..1 :
       LET f == Cardinality({c \in Cells : HarvestBoards[b][c].fertile})
       IN  /\ grid = HarvestBoards[b]
           /\ highestPlantEver = highestOn(HarvestBoards[b])
           /\ harvestState = [createInitialHarvestState EXCEPT !.crop_value = cv,
                                                                !.crop_synergy = cs,
                                                                !.lucky_harvest = lh]
           /\ cropsState = [createInitialCropsState EXCEPT !.fertile_soil = f]
           /\ money = StoreGoldAmount - spentOn("crop_value", cv) - spentOn("crop_synergy", cs)
                        - spentOn("lucky_harvest", lh) - spentOn("fertile_soil", f)
  /\ seedsState = createInitialSeedsState
  /\ seedsInStorage = 0
  /\ seedProgress = 0 /\ isSeedFlashing = FALSE /\ seedProgressRef = 0
  /\ tapZoomRef = NoZoom /\ seedFlashTimers = 0 /\ seedBounceTrigger = 0
  /\ harvestProgress = 0 /\ isHarvestFlashing = FALSE /\ harvestProgressRef = 0
  /\ harvestTapZoomRef = NoZoom /\ harvestBounceTrigger = 0 /\ harvestTimers = NoTimers
  /\ activeProjectiles = EmptyBag /\ bonusSeedTimers = EmptyBag
  /\ activeCoinPanels = EmptyBag
  /\ dragState = NoDrag
  /\ pendingMergeLevelIncreaseRef = 1
  /\ unlockTimers = EmptyBag /\ fertilizeTimers = EmptyBag
  /\ nextItemId = 4
  /\ pureFn = "none" /\ pureArg = 0 /\ pureOut = -1
  /\ plantTaps = NoTaps
  /\ harvestTaps = 0
  /\ bonusSeedsFired = NoBonusSeeds
  /\ coinPanelViews = EmptyBag

NextHarvest ==
  \/ HarvestTick
  \/ HarvestTap
  \/ HarvestZoomEnd
  \/ HarvestEffect
  \/ LuckyBlink
  \/ LuckyHarvest
  \/ HarvestFlashOff
  \/ CoinPanelImpact

SpecHarvest == InitHarvest /\ [][NextHarvest]_vars

\* the sum of the values of the coin panels of bag b
RECURSIVE PanelTotal(_)
PanelTotal(b) ==
  IF BagToSet(b) = {} THEN 0
  ELSE LET p == CHOOSE x \in BagToSet(b) : TRUE
       IN  p.value * CopiesIn(p, b) + PanelTotal([x \in BagToSet(b) \ {p} |-> b[x]])

\* floor(coinValue(level) * cropValueMultiplier * synergyMultiplier * fertileMultiplier)
\* for the crop of cell c, the multipliers 1 + level / 10 as exact fractions
ClaimedCropValue(c) ==
  LET coinValue == 5 * Pow2(grid[c].item.level - 1)
      adjacentSame ==
        \E o \in Cells :
          /\ Abs(CellQ(o) - CellQ(c)) <= 1 /\ Abs(CellR(o) - CellR(c)) <= 1
          /\ Abs((CellQ(o) + CellR(o)) - (CellQ(c) + CellR(c))) <= 1
          /\ o # c
          /\ grid[o].item # NoItem /\ grid[o].item.level = grid[c].item.level
      synergyNum == IF adjacentSame THEN 10 + harvestState.crop_synergy ELSE 10
      fertileMultiplier == IF grid[c].fertile THEN 2 ELSE 1
  IN  (coinValue * (10 + harvestState.crop_value) * synergyNum * fertileMultiplier) \div 100

RECURSIVE ClaimedHarvestSum(_)
ClaimedHarvestSum(S) ==
  IF S = {} THEN 0
  ELSE LET c == CHOOSE x \in S : TRUE
       IN  ClaimedCropValue(c) + ClaimedHarvestSum(S \ {c})

----------------------------------------------------------------------------
(* Claims about the merge payout, locked cells and the discovery record,   *)
(* checked under SpecMerge                                                  *)

\* C15: every merge applied to the board queues, in the same step, a merge coin
\* panel of value floor(coinValue(resultLevel) * cropMergingMultiplier), where
\* resultLevel is the level the target cell holds after the merge (the panel
\* adds exactly its value to money on arrival).
C15_MergePayout ==
  [][MergeStep =>
       LET resultLevel == grid'[dragState.targetCellIdx].item.level
           coin == [kind |-> "merge",
                    value |-> (5 * Pow2(resultLevel - 1) * (10 + cropsState.crop_merging))
                                 \div 10]
       IN  CopiesIn(coin, activeCoinPanels') = CopiesIn(coin, activeCoinPanels) + 1]_vars


\* C16: in every reachable state no locked cell holds a crop and no seed in
\* flight (or waiting on its bonus timer) is aimed at a locked cell; no step
\* changes a locked cell; and the target of every drop that reaches the board
\* (merge or relocate) is an unlocked cell.
C16_LockedCells ==
  /\ [](/\ \A c \in Cells : grid[c].locked => grid[c].item = NoItem
        /\ \A p \in BagToSet(activeProjectiles) \cup BagToSet(bonusSeedTimers) :
             ~grid[p.targetIdx].locked
        /\ dragState.targetCellIdx # NoCell => ~grid[dragState.targetCellIdx].locked)
  /\ [][/\ \A c \in Cells : grid[c].locked => grid'[c] = grid[c]
        /\ (ImpactStep /\ dragState.targetCellIdx # NoCell)
             => /\ ~grid[dragState.targetCellIdx].locked
                /\ \A c \in Cells \ {dragState.cellIdx, dragState.targetCellIdx} :
                     grid'[c] = grid[c]]_vars

\* a planted seed has been merged into the crop of cell 4, whose neighbours
\* 0, 1 and 3 are locked: all locked cells are still empty
C16_Witness ==
  /\ dragState.phase = "impact"
  /\ dragState.isMerge
  /\ dragState.targetCellIdx = 4
  /\ dragState.item.id >= 5
  /\ grid[dragState.cellIdx].item = NoItem
  /\ \A c \in Cells : grid[c].locked => grid[c].item = NoItem


\* C17: highestPlantEver is at least 1 (its value after construction), no step
\* decreases it, and after every merge it equals the maximum of its previous
\* value and the level of the merged crop (the level the target cell holds
\* after the merge).
C17_HighestPlantEver ==
  /\ [](highestPlantEver >= 1)
  /\ [][/\ highestPlantEver' >= highestPlantEver
        /\ MergeStep =>
             highestPlantEver' =
               Max(highestPlantEver, grid'[dragState.targetCellIdx].item.level)
        /\ highestPlantEver' # highestPlantEver => MergeStep]_vars

\* a merge that set no record has been applied: two level-2 crops were merged
\* into a level-3 crop while the record was 3, and the record is still 3
C17_Witness ==
  /\ dragState.phase = "impact"
  /\ dragState.isMerge
  /\ dragState.item.level = 2
  /\ grid[dragState.cellIdx].item = NoItem
  /\ grid[dragState.targetCellIdx].item.level = 3
  /\ highestPlantEver = 3

----------------------------------------------------------------------------
(* The seed_quality row of the shop while merges raise the discovery record *)

\* A session in which seeds have been planted and the store's gold taken once:
\* either two level-1 crops (record 1), or two level-2 crops made by two merges
\* of level-1 crops (record 2, two merge payouts of 10 received).
InitQuality ==
  /\ \E h \in 1..2 :
       /\ grid = [generateInitialGrid EXCEPT ![9].item = [id |-> 1, level |-> h],
                                             ![10].item = [id |-> 2 * h, level |-> h]]
       /\ highestPlantEver = h
       /\ money = StoreGoldAmount + (h - 1) * 2 * mergeCoinValue(2, createInitialCropsState)
       /\ nextItemId = 2 * h + 1
  /\ seedsState = createInitialSeedsState
  /\ cropsState = createInitialCropsState
  /\ harvestState = createInitialHarvestState
  /\ seedsInStorage = 0
  /\ seedProgress = 0 /\ isSeedFlashing = FALSE /\ seedProgressRef = 0
  /\ tapZoomRef = NoZoom /\ seedFlashTimers = 0 /\ seedBounceTrigger = 0
  /\ harvestProgress = 0 /\ isHarvestFlashing = FALSE /\ harvestProgressRef = 0
  /\ harvestTapZoomRef = NoZoom /\ harvestBounceTrigger = 0 /\ harvestTimers = NoTimers
  /\ activeProjectiles = EmptyBag /\ bonusSeedTimers = EmptyBag
  /\ activeCoinPanels = EmptyBag
  /\ dragState = NoDrag
  /\ pendingMergeLevelIncreaseRef = 1
  /\ unlockTimers = EmptyBag /\ fertilizeTimers = EmptyBag
  /\ pureFn = "none" /\ pureArg = 0 /\ pureOut = -1
  /\ plantTaps = NoTaps
  /\ harvestTaps = 0
  /\ bonusSeedsFired = NoBonusSeeds
  /\ coinPanelViews = EmptyBag

NextQuality ==
  \/ PurchaseOf("seed_quality")
  \/ StartDrag
  \/ OnUp
  \/ PointerCancel
  \/ FlyBackImpact
  \/ ImpactTimeout
  \/ CoinPanelImpact

SpecQuality == InitQuality /\ [][NextQuality]_vars

\* C19: in every state seedBaseTier = 1 + floor(seed_quality level / 10); a
\* step raises seedBaseTier only by exactly 1 and exactly when it raises the
\* seed_quality level (by one purchase) to a multiple of 10, and the quality
\* chance (level mod 10) * 10 % is then 0.
C19_SeedBaseTier ==
  /\ [](seedsState.seedBaseTier = 1 + seedsState.seed_quality \div 10)
  /\ [][/\ seedsState'.seed_quality \in {seedsState.seed_quality, seedsState.seed_quality + 1}
        /\ seedsState'.seedBaseTier # seedsState.seedBaseTier
             <=> /\ seedsState'.seed_quality = seedsState.seed_quality + 1
                 /\ seedsState'.seed_quality % 10 = 0
        /\ seedsState'.seedBaseTier # seedsState.seedBaseTier
             => /\ seedsState'.seedBaseTier = seedsState.seedBaseTier + 1
                /\ getSeedQualityPercent(seedsState') = 0
                /\ getSeedQualityPercent(seedsState) = 90]_vars

\* twenty purchases of seed_quality: seedBaseTier 3, the quality chance at 0
C19_Witness ==
  /\ seedsState.seed_quality = 20
  /\ seedsState.seedBaseTier = 3
  /\ getSeedQualityPercent(seedsState) = 0


\* C20: the seed_quality row is maxed exactly when seedBaseTier + 1 >
\* highestPlantEver, and from every such state no step changes the seed_quality
\* level or seedBaseTier or takes money away (money moves only by the arrival
\* of a coin panel), however much money there is.
C20_SeedQualityMaxed ==
  /\ [](isMaxed("seed_quality") <=> seedsState.seedBaseTier + 1 > highestPlantEver)
  /\ [][(seedsState.seedBaseTier + 1 > highestPlantEver)
          => /\ seedsState'.seed_quality = seedsState.seed_quality
             /\ seedsState'.seedBaseTier = seedsState.seedBaseTier
             /\ money' >= money
             /\ money' # money
                  => \E coin \in BagToSet(activeCoinPanels) : money' = money + coin.value]_vars

\* ten levels bought after the first level-2 crop: seedBaseTier 2, no level-3
\* crop yet, and the next level (900) is affordable
C20_Witness ==
  /\ seedsState.seed_quality = 10
  /\ seedsState.seedBaseTier = 2
  /\ highestPlantEver = 2
  /\ money >= calculateUpgradeCost("seed_quality", seedsState.seed_quality)
  /\ dragState = NoDrag

----------------------------------------------------------------------------
(* Claims about harvest taps and the range of the meters, checked under    *)
(* SpecMeter                                                               *)

\* a call of handleHarvestClick
HarvestTapStep == harvestTaps' # harvestTaps

\* C21: every tap on the harvest button starts an advance of the harvest
\* meter by 15 points from its current value, to 100 when the value is 85 or
\* more (which completes the meter and triggers a harvest).
C21_HarvestTapAdvances ==
  [][HarvestTapStep =>
       harvestTapZoomRef' = [start |-> harvestProgressRef,
                             end |-> IF harvestProgressRef >= 85 THEN 100
                                     ELSE harvestProgressRef + 15]]_vars


----------------------------------------------------------------------------
(* Both meters together with a merge that boosts the harvest meter         *)

\* A session in which the store's gold has bought harvest_boost levels, two
\* seeds have been planted next to each other, and the crop of cell 9 has just
\* been released over the crop of cell 10: the drop was classified as a merge
\* and the crop is flying to its target.  The seeds came from taps on the plant
\* button, which leave as many further plant taps as harvest taps.
InitRange ==
  /\ \E hb \in 1..MaxBoostLevel :
       /\ harvestState = [createInitialHarvestState EXCEPT !.harvest_boost = hb]
       /\ money = StoreGoldAmount - spentOn("harvest_boost", hb)
  /\ grid = [generateInitialGrid EXCEPT ![9].item = [id |-> 1, level |-> 1],
                                        ![10].item = [id |-> 2, level |-> 1]]
  /\ seedsState = createInitialSeedsState
  /\ cropsState = createInitialCropsState
  /\ highestPlantEver = 1
  /\ seedsInStorage = 0
  /\ seedProgress = 0 /\ isSeedFlashing = FALSE /\ seedProgressRef = 0
  /\ tapZoomRef = NoZoom /\ seedFlashTimers = 0 /\ seedBounceTrigger = 0
  /\ harvestProgress = 0 /\ isHarvestFlashing = FALSE /\ harvestProgressRef = 0
  /\ harvestTapZoomRef = NoZoom /\ harvestBounceTrigger = 0 /\ harvestTimers = NoTimers
  /\ activeProjectiles = EmptyBag /\ bonusSeedTimers = EmptyBag
  /\ activeCoinPanels = EmptyBag
  /\ dragState = [phase |-> "flyingBack", cellIdx |-> 9, item |-> [id |-> 1, level |-> 1],
                  targetCellIdx |-> 10, isMerge |-> TRUE, mergeResultLevel |-> 2]
  /\ pendingMergeLevelIncreaseRef = 1
  /\ unlockTimers = EmptyBag /\ fertilizeTimers = EmptyBag
  /\ nextItemId = 3
  /\ pureFn = "none" /\ pureArg = 0 /\ pureOut = -1
  /\ plantTaps = [n |-> MaxTaps - MaxHarvestTaps, cut |-> 0]
  /\ harvestTaps = 0
  /\ bonusSeedsFired = NoBonusSeeds
  /\ coinPanelViews = EmptyBag

NextRange ==
  \/ SeedTick
  \/ SeedZoomEnd
  \/ SeedEffect
  \/ SeedFlashOff
  \/ PlantTapProgress
  \/ HarvestTick
  \/ HarvestTap
  \/ HarvestZoomEnd
  \/ HarvestEffect
  \/ HarvestFlashOff
  \/ FlyBackImpact
  \/ ImpactTimeout

SpecRange == InitRange /\ [][NextRange]_vars


\* C22: in every reachable state the seed meter and the harvest meter lie in
\* [0, 100]: the value each meter holds, the value shown, and both ends of a
\* running tap zoom or harvest-boost zoom, between which the meter moves.
C22_MetersInRange ==
  /\ seedProgressRef \in 0..100 /\ seedProgress \in 0..100
  /\ harvestProgressRef \in 0..100 /\ harvestProgress \in 0..100
  /\ tapZoomRef # NoZoom
       => tapZoomRef.start \in 0..100 /\ tapZoomRef.end \in tapZoomRef.start..100
  /\ harvestTapZoomRef # NoZoom
       => /\ harvestTapZoomRef.start \in 0..100
          /\ harvestTapZoomRef.end \in harvestTapZoomRef.start..100

\* the merge has boosted the harvest meter from 90 to 92, the seed meter has
\* been through an overflow reset, and a tap takes the harvest meter from 92
\* to the cap
C22_Witness ==
  /\ dragState.phase \in {"impact", "none"}
  /\ harvestState.harvest_boost = 1
  /\ harvestTapZoomRef = [start |-> 92, end |-> 100]
  /\ seedsInStorage = 1
  /\ plantTaps.n = MaxTaps - MaxHarvestTaps + 1
  /\ seedBounceTrigger = 1


\* C26: when a drop reaches the board, handleMerge applies what the release
\* decided: a drop classified as a merge merges the two crops, and a drop
\* classified as a relocate onto an empty cell moves the crop there and is
\* never applied as a merge.
C26_ReleaseDecisionHolds ==
  [][(ImpactStep /\ dragState.targetCellIdx # NoCell) =>
       LET s == dragState.cellIdx
           t == dragState.targetCellIdx
       IN  IF dragState.isMerge
           THEN /\ MergeStep
                /\ grid'[s].item = NoItem
                /\ grid'[t].item.level = dragState.mergeResultLevel
           ELSE /\ ~MergeStep
                /\ grid'[s].item = NoItem
                /\ grid'[t].item = dragState.item]_vars


\* a seed in flight lands (Projectile onImpact and onComplete)
SeedLandingStep == BagCardinality(activeProjectiles') < BagCardinality(activeProjectiles)

\* C27: every stored seed fired by a plant tap places exactly one crop: when
\* it lands, its target cell is still empty and receives a crop of the seed's
\* level (no bonus seeds are in play: bonus_seeds is at level 0).
C27_NoSeedWasted ==
  [][SeedLandingStep =>
       \E p \in BagToSet(activeProjectiles) :
         /\ activeProjectiles' = activeProjectiles (-) SetToBag({p})
         /\ grid[p.targetIdx].item = NoItem
         /\ grid'[p.targetIdx].item # NoItem
         /\ grid'[p.targetIdx].item.level = p.plantLevel
         /\ CropCount(grid') = CropCount(grid) + 1]_vars


----------------------------------------------------------------------------
(* Seeds, merges and the seed_quality row together                         *)

\* A session in which the store's gold has been taken once, two level-1 seeds
\* have been planted next to each other and a third seed waits in the storage.
InitDiscovery ==
  /\ money = StoreGoldAmount
  /\ grid = [generateInitialGrid EXCEPT ![9].item = [id |-> 1, level |-> 1],
                                        ![10].item = [id |-> 2, level |-> 1]]
  /\ seedsState = createInitialSeedsState
  /\ cropsState = createInitialCropsState
  /\ harvestState = createInitialHarvestState
  /\ highestPlantEver = 1
  /\ seedsInStorage = 1
  /\ seedProgress = 0 /\ isSeedFlashing = FALSE /\ seedProgressRef = 0
  /\ tapZoomRef = NoZoom /\ seedFlashTimers = 0 /\ seedBounceTrigger = 0
  /\ harvestProgress = 0 /\ isHarvestFlashing = FALSE /\ harvestProgressRef = 0
  /\ harvestTapZoomRef = NoZoom /\ harvestBounceTrigger = 0 /\ harvestTimers = NoTimers
  /\ activeProjectiles = EmptyBag /\ bonusSeedTimers = EmptyBag
  /\ activeCoinPanels = EmptyBag
  /\ dragState = NoDrag
  /\ pendingMergeLevelIncreaseRef = 1
  /\ unlockTimers = EmptyBag /\ fertilizeTimers = EmptyBag
  /\ nextItemId = 3
  /\ pureFn = "none" /\ pureArg = 0 /\ pureOut = -1
  /\ plantTaps = NoTaps
  /\ harvestTaps = 0
  /\ bonusSeedsFired = NoBonusSeeds
  /\ coinPanelViews = EmptyBag

NextDiscovery ==
  \/ PurchaseOf("seed_quality")
  \/ PlantTapFire
  \/ ProjectileImpact
  \/ StartDrag
  \/ OnUp
  \/ PointerCancel
  \/ FlyBackImpact
  \/ ImpactTimeout

SpecDiscovery == InitDiscovery /\ [][NextDiscovery]_vars

\* C28: in every reachable state every crop on the board has a level of at
\* most highestPlantEver, and so has every seed in flight and every seed that
\* a tap could fire (seedBaseTier, or seedBaseTier + 1 when the quality chance
\* is above 0).
C28_NoUndiscoveredLevel ==
  /\ \A c \in Cells : grid[c].item # NoItem => grid[c].item.level <= highestPlantEver
  /\ \A p \in BagToSet(activeProjectiles) : p.plantLevel <= highestPlantEver
  /\ \A roll \in RollValues : calculatePlantLevel(seedsState, roll) <= highestPlantEver

\* after the merge to level 2, seed_quality was bought to level 10 and then a
\* seed of level 2 was planted and merged into a level-3 crop; the row is open
\* again and was bought on: a seed fired now can be of level 3
C28_Witness ==
  /\ highestPlantEver = 3
  /\ seedsState.seed_quality = 15
  /\ \E c \in Cells : grid[c].item.level = 3
  /\ \E roll \in RollValues : calculatePlantLevel(seedsState, roll) = 3

----------------------------------------------------------------------------
(* The two meters under fair scheduling: requestAnimationFrame re-arms      *)
(* every tick and zoom frame, React runs the 100% effects after the render  *)
(* that set the state, and every setTimeout fires; taps are never forced    *)

\* A session like InitMeter's in which all plant taps but one and all harvest
\* taps but one have been made; each harvest tap has put 15 points on the
\* harvest meter.
InitLive ==
  /\ money = StoreGoldAmount - calculateUpgradeCost("lucky_harvest", 0)
  /\ grid = [generateInitialGrid EXCEPT ![9].item = [id |-> 1, level |-> 1]]
  /\ seedsState = createInitialSeedsState
  /\ cropsState = createInitialCropsState
  /\ harvestState = [createInitialHarvestState EXCEPT !.lucky_harvest = 1]
  /\ highestPlantEver = 1
  /\ seedsInStorage = 0
  /\ seedProgress = 0 /\ isSeedFlashing = FALSE /\ seedProgressRef = 0
  /\ tapZoomRef = NoZoom /\ seedFlashTimers = 0 /\ seedBounceTrigger = 0
  /\ harvestProgress = 0 /\ isHarvestFlashing = FALSE
  /\ harvestProgressRef = 15 * (MaxHarvestTaps - 1)
  /\ harvestTapZoomRef = NoZoom /\ harvestBounceTrigger = 0 /\ harvestTimers = NoTimers
  /\ activeProjectiles = EmptyBag /\ bonusSeedTimers = EmptyBag
  /\ activeCoinPanels = EmptyBag
  /\ dragState = NoDrag
  /\ pendingMergeLevelIncreaseRef = 1
  /\ unlockTimers = EmptyBag /\ fertilizeTimers = EmptyBag
  /\ nextItemId = 2
  /\ pureFn = "none" /\ pureArg = 0 /\ pureOut = -1
  /\ plantTaps = [n |-> MaxTaps - 1, cut |-> 0]
  /\ harvestTaps = MaxHarvestTaps - 1
  /\ bonusSeedsFired = NoBonusSeeds
  /\ coinPanelViews = EmptyBag

NextLive ==
  \/ SeedTick
  \/ SeedZoomEnd
  \/ SeedEffect
  \/ SeedFlashOff
  \/ PlantTapProgress
  \/ HarvestTick
  \/ HarvestZoomEnd
  \/ HarvestEffect
  \/ LuckyBlink
  \/ LuckyHarvest
  \/ HarvestFlashOff
  \/ HarvestTap

\* frames, effects and timers run whenever they are due
LiveFairness ==
  /\ WF_vars(SeedTick) /\ WF_vars(SeedZoomEnd) /\ WF_vars(SeedEffect)
  /\ WF_vars(SeedFlashOff)
  /\ WF_vars(HarvestTick) /\ WF_vars(HarvestZoomEnd) /\ WF_vars(HarvestEffect)
  /\ WF_vars(LuckyBlink) /\ WF_vars(LuckyHarvest) /\ WF_vars(HarvestFlashOff)

SpecLive == InitLive /\ [][NextLive]_vars /\ LiveFairness

\* bounces of the harvest button still to come from a lucky harvest under way
pendingLuckyBounce ==
  IF harvestTimers.stage \in {"luckyBlink", "luckyHarvest"} THEN 1 ELSE 0

----------------------------------------------------------------------------
(* The field in mid-game: planting, drag, merge with the merge-harvest     *)
(* roll and the harvest boost, the harvest pass, and the delayed commit    *)
(* of a fertilize bought just before                                       *)

\* A session in which the store's gold has bought one level of merge_harvest,
\* two levels of fertile_soil and hb levels of harvest_boost: cell 10 is
\* fertile and the commit of the last fertile_soil purchase (cell 5) is
\* pending.  A level-1 crop stands on 10; either level-1 and level-2 crops
\* stand on 9 and 4 and the storage is empty, or one seed is stored.  The
\* harvest meter is at 98%.
InitField ==
  /\ \E hb \in 0..1 :
       /\ harvestState = [createInitialHarvestState EXCEPT !.harvest_boost = hb]
       /\ money = StoreGoldAmount - spentOn("merge_harvest", 1)
                    - spentOn("fertile_soil", 2) - spentOn("harvest_boost", hb)
  /\ \E stored \in 0..1 :
       /\ seedsInStorage = stored
       /\ grid = [generateInitialGrid EXCEPT
                    ![9].item = IF stored = 0 THEN [id |-> 1, level |-> 1] ELSE NoItem,
                    ![10].item = [id |-> 2, level |-> 1],
                    ![10].fertile = TRUE,
                    ![4].item = IF stored = 0 THEN [id |-> 3, level |-> 2] ELSE NoItem]
  /\ seedsState = createInitialSeedsState
  /\ cropsState = [createInitialCropsState EXCEPT !.merge_harvest = 1,
                                                  !.fertile_soil = 2]
  /\ highestPlantEver = 2
  /\ seedProgress = 0 /\ isSeedFlashing = FALSE /\ seedProgressRef = 0
  /\ tapZoomRef = NoZoom /\ seedFlashTimers = 0 /\ seedBounceTrigger = 0
  /\ harvestProgress = 0 /\ isHarvestFlashing = FALSE /\ harvestProgressRef = 98
  /\ harvestTapZoomRef = NoZoom /\ harvestBounceTrigger = 0 /\ harvestTimers = NoTimers
  /\ activeProjectiles = EmptyBag /\ bonusSeedTimers = EmptyBag
  /\ activeCoinPanels = EmptyBag
  /\ dragState = NoDrag
  /\ pendingMergeLevelIncreaseRef = 1
  /\ unlockTimers = EmptyBag /\ fertilizeTimers = SetToBag({5})
  /\ nextItemId = 4
  /\ pureFn = "none" /\ pureArg = 0 /\ pureOut = -1
  /\ plantTaps = [n |-> MaxTaps - 1, cut |-> 0]
  /\ harvestTaps = 0
  /\ bonusSeedsFired = NoBonusSeeds
  /\ coinPanelViews = EmptyBag

NextField ==
  \/ PlantTapFire
  \/ ProjectileImpact
  \/ StartDrag
  \/ OnUp
  \/ PointerCancel
  \/ FlyBackImpact
  \/ ImpactTimeout
  \/ HarvestZoomEnd
  \/ HarvestEffect
  \/ HarvestFlashOff
  \/ FertilizeTimeout

SpecField == InitField /\ [][NextField]_vars

\* C31: merge, relocate, seed placement and harvest change the locked and the
\* fertile flag of no cell; in every step a fertile cell stays fertile and an
\* unlocked cell stays unlocked, and a flag changes only by the commit of an
\* unlock or of a fertilize.
C31_FlagsKept ==
  [][/\ \A c \in Cells : /\ grid[c].fertile => grid'[c].fertile
                         /\ ~grid[c].locked => ~grid'[c].locked
     /\ (unlockTimers' = unlockTimers /\ fertilizeTimers' = fertilizeTimers)
          => \A c \in Cells : /\ grid'[c].locked = grid[c].locked
                              /\ grid'[c].fertile = grid[c].fertile]_vars

\* a seed has landed on cell 5, which has become fertile; the crop of the
\* fertile cell 10 has been merged into it, and the harvest pass has run
C31_Witness ==
  /\ grid[10].fertile /\ grid[10].item = NoItem
  /\ grid[5].fertile /\ grid[5].item.id >= 4 /\ grid[5].item.level = 2
  /\ harvestBounceTrigger >= 1

\* the coin panels a merge step adds besides the merge panel itself
SideRollPanels ==
  (activeCoinPanels' (-) activeCoinPanels)
    (-) (IF dragState.isMerge
         THEN SetToBag({[kind |-> "merge",
                         value |-> mergeCoinValue(dragState.mergeResultLevel, cropsState)]})
         ELSE EmptyBag)

\* C32: the merge-harvest side roll of a merge only adds coin panels: for
\* some set of cells that are adjacent to the merge target, hold a crop and
\* are not the source, exactly one panel of the cell's harvest value is added
\* per cell of the set; no crop besides source and target changes, the money
\* does not go down and the harvest meter is neither reset nor completed.
C32_SideRollOnlyPays ==
  [][MergeStep =>
       LET s == dragState.cellIdx
           t == dragState.targetCellIdx
           paid == {c \in getAdjacentCellIndices(t) : c # s /\ grid[c].item # NoItem}
       IN  /\ \E triggered \in SUBSET paid :
                SideRollPanels
                  = PanelsOf(triggered,
                             [c \in Cells |->
                                [kind |-> "merge-harvest",
                                 value |-> IF grid[c].item = NoItem THEN 0
                                           ELSE cellHarvestValue(grid, c, harvestState)]])
           /\ \A c \in Cells \ {s, t} : grid'[c] = grid[c]
           /\ CropCount(grid') = CropCount(grid) - 1
           /\ money' = money
           /\ <<harvestProgress, harvestProgressRef, isHarvestFlashing,
                harvestBounceTrigger, harvestTimers>>'
                = <<harvestProgress, harvestProgressRef, isHarvestFlashing,
                    harvestBounceTrigger, harvestTimers>>]_vars

\* the level-1 crop of cell 9 has been merged into the crop of cell 10 while
\* the level-2 crop stood next to the target: the side roll has paid for it
C32_Witness ==
  /\ dragState.phase = "impact" /\ dragState.cellIdx = 9 /\ dragState.targetCellIdx = 10
  /\ grid[9].item = NoItem /\ grid[10].item.level = 2
  /\ grid[4].item = NoItem /\ grid[5].item.level = 2
  /\ BagIn([kind |-> "merge-harvest", value |-> 10], activeCoinPanels)
  /\ Cardinality({c \in Cells : grid[c].item # NoItem}) = 2

\* handleMerge is applied to a source holding a crop and an empty target
RelocateStep ==
  /\ ImpactStep
  /\ dragState.targetCellIdx # NoCell
  /\ grid[dragState.cellIdx].item # NoItem
  /\ grid[dragState.targetCellIdx].item = NoItem

\* C33: a merge starts the advance of the harvest meter from its value to that
\* value plus 2 x harvest_boost level, capped at 100, unless harvest_boost is
\* at level 0 or the meter is complete (at 100%), in which case the meter is
\* left as it is; a relocate leaves the harvest meter as it is.
C33_MergeBoost ==
  [][/\ MergeStep =>
          /\ <<harvestProgress, harvestProgressRef, isHarvestFlashing,
               harvestBounceTrigger, harvestTimers>>'
               = <<harvestProgress, harvestProgressRef, isHarvestFlashing,
                   harvestBounceTrigger, harvestTimers>>
          /\ IF harvestState.harvest_boost = 0 \/ harvestProgressRef >= 100
             THEN harvestTapZoomRef' = harvestTapZoomRef
             ELSE harvestTapZoomRef' =
                    [start |-> harvestProgressRef,
                     end |-> Min(100, harvestProgressRef + 2 * harvestState.harvest_boost)]
     /\ RelocateStep => UNCHANGED harvestMeterVars]_vars

----------------------------------------------------------------------------
(* Bonus seeds: the pair of seeds aimed at the last empty cell, and a crop *)
(* moved onto that cell and off it again while the pair is in flight        *)

\* the unlocked cells of the initial board
PlayCells == {c \in Cells : ~generateInitialGrid[c].locked}

\* the board on which the level-1 crop stands on cell c, cell e is empty and
\* crops of levels 3 to 7 stand on the other unlocked cells
FullBoard(c, e) ==
  [idx \in Cells |->
     IF idx = c THEN [generateInitialGrid[idx] EXCEPT !.item = [id |-> 6, level |-> 1]]
     ELSE IF idx \in PlayCells \ {e}
     THEN [generateInitialGrid[idx] EXCEPT
             !.item = [id |-> Cardinality({d \in PlayCells \ {c, e} : d <= idx}),
                       level |-> 2 + Cardinality({d \in PlayCells \ {c, e} : d <= idx})]]
     ELSE generateInitialGrid[idx]]

\* A session in which the store's gold has bought one level of bonus_seeds and
\* long play has filled the board up to one cell c.  The player has released
\* the level-1 crop of cell e over c and tapped the plant button while the crop
\* was flying: c was the only empty cell, so the stored seed and its bonus seed
\* are both in flight to c.  The crop has landed on c and the player has
\* picked it up again.
InitBonus ==
  /\ \E c \in PlayCells :
     \E e \in PlayCells \ {c} :
       /\ grid = FullBoard(c, e)
       /\ dragState = [NoDrag EXCEPT !.phase = "holding", !.cellIdx = c,
                                     !.item = [id |-> 6, level |-> 1]]
       /\ activeProjectiles = SetToBag({[targetIdx |-> c, plantLevel |-> 1]})
                                (+) SetToBag({[targetIdx |-> c, plantLevel |-> 1]})
  /\ highestPlantEver = 7
  /\ money = StoreGoldAmount - spentOn("bonus_seeds", 1)
  /\ seedsState = [createInitialSeedsState EXCEPT !.bonus_seeds = 1]
  /\ cropsState = createInitialCropsState
  /\ harvestState = createInitialHarvestState
  /\ seedsInStorage = 0
  /\ seedProgress = 0 /\ isSeedFlashing = FALSE /\ seedProgressRef = 0
  /\ tapZoomRef = NoZoom /\ seedFlashTimers = 0 /\ seedBounceTrigger = 0
  /\ harvestProgress = 0 /\ isHarvestFlashing = FALSE /\ harvestProgressRef = 0
  /\ harvestTapZoomRef = NoZoom /\ harvestBounceTrigger = 0 /\ harvestTimers = NoTimers
  /\ bonusSeedTimers = EmptyBag
  /\ activeCoinPanels = EmptyBag
  /\ pendingMergeLevelIncreaseRef = 1
  /\ unlockTimers = EmptyBag /\ fertilizeTimers = EmptyBag
  /\ nextItemId = 7
  /\ pureFn = "none" /\ pureArg = 0 /\ pureOut = -1
  /\ plantTaps = [n |-> 1, cut |-> 0]
  /\ harvestTaps = 0
  /\ bonusSeedsFired = [n |-> 1, same |-> 1]
  /\ coinPanelViews = EmptyBag

NextBonus ==
  \/ ProjectileImpact
  \/ OnUp
  \/ PointerCancel
  \/ FlyBackImpact
  \/ ImpactTimeout

SpecBonus == InitBonus /\ [][NextBonus]_vars

\* C34: a bonus seed fired at the first target (no other unlocked cell was
\* empty at the tap) places nothing when it lands.  The bonus seed lands 50 ms
\* after the first seed of its pair; stated for the case in which the first
\* seed has placed no crop either, the only one in which a crop can leave the
\* cell between the two landings.
C34_BonusSeedWasted ==
  [][(/\ SeedLandingStep
      /\ bonusSeedsFired = [n |-> 1, same |-> 1]
      /\ bonusSeedTimers = EmptyBag
      /\ BagCardinality(activeProjectiles) = 1
      /\ nextItemId = 7)
       => grid' = grid]_vars

----------------------------------------------------------------------------
(* Passes of one completion of the harvest meter, checked under SpecHarvest *)

\* C35: a harvest pass is run either by the 100% effect on a completed meter,
\* which resets the meter and arms the timers of one roll (the lucky chain only
\* with lucky_harvest above level 0), or by the lucky timer of that chain,
\* which leaves the meter alone, arms no new chain and is followed only by the
\* flash-off timer: between two completions there are at most two passes.
C35_PassesPerCompletion ==
  /\ [][HarvestPassStep =>
          /\ harvestBounceTrigger' = harvestBounceTrigger + 1
          /\ \/ /\ HarvestCompleted
                /\ harvestProgressRef' = 0 /\ harvestProgress' = 0
                /\ harvestTimers'.stage \in {"off", "luckyBlink"}
                /\ harvestTimers'.stage = "luckyBlink" => harvestState.lucky_harvest > 0
             \/ /\ ~HarvestCompleted
                /\ harvestTimers.stage = "luckyHarvest"
                /\ harvestState.lucky_harvest > 0
                /\ harvestTimers'.stage = "luckyOff"
                /\ harvestProgressRef' = harvestProgressRef
                /\ harvestProgress' = harvestProgress]_vars
  /\ [][/\ (harvestTimers'.stage = "luckyHarvest" /\ harvestTimers.stage # "luckyHarvest")
             => (harvestTimers.stage = "luckyBlink" /\ ~HarvestPassStep)
        /\ (harvestTimers'.stage = "luckyBlink" /\ harvestTimers.stage # "luckyBlink")
             => (HarvestCompleted /\ HarvestPassStep)
        /\ harvestTimers.stage \in {"off", "luckyOff"}
             => (harvestTimers' = harvestTimers \/ harvestTimers' = NoTimers)]_vars
  /\ [](harvestTimers.stage \in {"off", "luckyBlink", "luckyHarvest", "luckyOff"}
          => ~HarvestCompleted)

\* a lucky harvest on the board of three crops: the second pass has run, the
\* meter keeps filling from the reset of the first pass and the last timer is due
C35_Witness ==
  /\ harvestTimers.stage = "luckyOff"
  /\ harvestBounceTrigger = 2
  /\ harvestProgress = 0 /\ harvestProgressRef < 100
  /\ isHarvestFlashing
  /\ BagCardinality(activeCoinPanels) + (money - (StoreGoldAmount
         - spentOn("crop_value", harvestState.crop_value)
         - spentOn("crop_synergy", harvestState.crop_synergy)
         - spentOn("lucky_harvest", 1)
         - spentOn("fertile_soil", cropsState.fertile_soil))) > 0
  /\ harvestState.lucky_harvest = 1
  /\ CropCount(grid) = 3

----------------------------------------------------------------------------
(* The wallet of a session that never opens the store                      *)

\* A session without the store's gold: taps and the auto-fill have produced
\* one seed, it has been planted on the centre cell, and six to eight harvest
\* passes of that level-1 crop have been credited at 5 each; nothing has been
\* bought yet.
InitWallet ==
  /\ \E passes \in 6..8 : money = 5 * passes
  /\ grid = [generateInitialGrid EXCEPT ![9].item = [id |-> 1, level |-> 1]]
  /\ seedsState = createInitialSeedsState
  /\ cropsState = createInitialCropsState
  /\ harvestState = createInitialHarvestState
  /\ highestPlantEver = 1
  /\ seedsInStorage = 0
  /\ seedProgress = 0 /\ isSeedFlashing = FALSE /\ seedProgressRef = 0
  /\ tapZoomRef = NoZoom /\ seedFlashTimers = 0 /\ seedBounceTrigger = 0
  /\ harvestProgress = 0 /\ isHarvestFlashing = FALSE /\ harvestProgressRef = 0
  /\ harvestTapZoomRef = NoZoom /\ harvestBounceTrigger = 0 /\ harvestTimers = NoTimers
  /\ activeProjectiles = EmptyBag /\ bonusSeedTimers = EmptyBag
  /\ activeCoinPanels = EmptyBag
  /\ dragState = NoDrag
  /\ pendingMergeLevelIncreaseRef = 1
  /\ unlockTimers = EmptyBag /\ fertilizeTimers = EmptyBag
  /\ nextItemId = 2
  /\ pureFn = "none" /\ pureArg = 0 /\ pureOut = -1
  /\ plantTaps = NoTaps
  /\ harvestTaps = 0
  /\ bonusSeedsFired = NoBonusSeeds
  /\ coinPanelViews = EmptyBag

NextWallet ==
  \/ HarvestTick
  \/ HarvestEffect
  \/ HarvestFlashOff
  \/ CoinPanelImpact
  \/ Purchase

SpecWallet == InitWallet /\ [][NextWallet]_vars

\* C36: money is never negative: no coin panel carries a negative value, and
\* money falls only by the price of an upgrade level that is bought in that
\* step and that the money held before the step covers.
C36_MoneyNeverNegative ==
  /\ [](money >= 0)
  /\ [](\A coin \in BagToSet(activeCoinPanels) : coin.value >= 0)
  /\ [][money' < money =>
          \E id \in AllIds :
            LET level == levelOf(seedsState, cropsState, harvestState, id)
                cost == calculateUpgradeCost(id, level)
            IN  /\ money >= cost
                /\ money' = money - cost
                /\ levelOf(seedsState', cropsState', harvestState', id) = level + 1]_vars

\* seed_storage bought for 40 with exactly 40 in the wallet, the seventh and
\* the eighth payout having arrived before the purchase
C36_Witness ==
  /\ money = 0
  /\ seedsState.seed_storage = 1
  /\ purchasesMade = 1
  /\ harvestBounceTrigger >= 1

----------------------------------------------------------------------------
(* The upgrades with a cap of ten levels                                   *)

\* the rows whose is...Maxed test is "level >= 10"
CappedIds == {"bonus_seeds", "crop_merging", "lucky_merge", "merge_harvest",
              "harvest_boost", "lucky_harvest"}

\* A session in which the store's gold has bought eight levels of each of the
\* six capped upgrades before anything was planted.
InitCaps ==
  /\ money = StoreGoldAmount
               - spentOn("bonus_seeds", 8) - spentOn("crop_merging", 8)
               - spentOn("lucky_merge", 8) - spentOn("merge_harvest", 8)
               - spentOn("harvest_boost", 8) - spentOn("lucky_harvest", 8)
  /\ grid = generateInitialGrid
  /\ seedsState = [createInitialSeedsState EXCEPT !.bonus_seeds = 8]
  /\ cropsState = [createInitialCropsState EXCEPT !.crop_merging = 8, !.lucky_merge = 8,
                                                  !.merge_harvest = 8]
  /\ harvestState = [createInitialHarvestState EXCEPT !.harvest_boost = 8,
                                                      !.lucky_harvest = 8]
  /\ highestPlantEver = 1
  /\ seedsInStorage = 0
  /\ seedProgress = 0 /\ isSeedFlashing = FALSE /\ seedProgressRef = 0
  /\ tapZoomRef = NoZoom /\ seedFlashTimers = 0 /\ seedBounceTrigger = 0
  /\ harvestProgress = 0 /\ isHarvestFlashing = FALSE /\ harvestProgressRef = 0
  /\ harvestTapZoomRef = NoZoom /\ harvestBounceTrigger = 0 /\ harvestTimers = NoTimers
  /\ activeProjectiles = EmptyBag /\ bonusSeedTimers = EmptyBag
  /\ activeCoinPanels = EmptyBag
  /\ dragState = NoDrag
  /\ pendingMergeLevelIncreaseRef = 1
  /\ unlockTimers = EmptyBag /\ fertilizeTimers = EmptyBag
  /\ nextItemId = 1
  /\ pureFn = "none" /\ pureArg = 0 /\ pureOut = -1
  /\ plantTaps = NoTaps
  /\ harvestTaps = 0
  /\ bonusSeedsFired = NoBonusSeeds
  /\ coinPanelViews = EmptyBag

\* a click on the price button of one of the capped rows
NextCaps == \E id \in CappedIds : PurchaseOf(id)

SpecCaps == InitCaps /\ [][NextCaps]_vars

\* C37: the levels of bonus_seeds, crop_merging, lucky_merge, merge_harvest,
\* harvest_boost and lucky_harvest never exceed 10, so the chances stay within
\* 50%, the merge multiplier within 2.0x and the harvest boost within 20%.
C37_CappedLevels ==
  /\ \A id \in CappedIds : levelOf(seedsState, cropsState, harvestState, id) <= 10
  /\ getBonusSeedChance(seedsState) <= 50
  /\ getLuckyMergeChance(cropsState) <= 50
  /\ getMergeHarvestChance(cropsState) <= 50
  /\ getLuckyHarvestChance(harvestState) <= 50
  /\ getCropMergingMultiplier10(cropsState) <= 20
  /\ getHarvestBoostPercent(harvestState) <= 20

\* all six rows maxed, with money left for a further level of each of them
C37_Witness ==
  /\ \A id \in CappedIds :
       /\ levelOf(seedsState, cropsState, harvestState, id) = 10
       /\ isMaxed(id)
       /\ money >= calculateUpgradeCost(id, 10)
  /\ getLuckyMergeChance(cropsState) = 50
  /\ getCropMergingMultiplier10(cropsState) = 20
  /\ getHarvestBoostPercent(harvestState) = 20

----------------------------------------------------------------------------
(* The CoinPanel component: src/components/CellHighlightBeam.tsx           *)

\* the CoinPanel components of bag views that render coin
viewsOf(views, coin) ==
  LET S == {v \in BagToSet(views) : v.coin = coin}
  IN  IF S = {} THEN EmptyBag ELSE [v \in S |-> views[v]]

\* a tick that calls onImpact whether or not it has been called before
impactDueAlways(impactFired) == TRUE

\* tick, phase moveToWallet, t >= 1: if (!impactFiredRef.current)
impactDue(impactFired) == ~impactFired

\* the render that follows setActiveCoinPanels mounts a CoinPanel for a coin
\* that has none yet: phase 'reveal', impactFiredRef false, the effect
\* schedules the first tick
CoinPanelMount ==
  /\ \E coin \in BagToSet(activeCoinPanels) :
       /\ BagCardinality(viewsOf(coinPanelViews, coin)) < CopiesIn(coin, activeCoinPanels)
       /\ coinPanelViews' = BagAdd(coinPanelViews,
                                   [coin |-> coin, phase |-> "reveal",
                                    tickPhase |-> "reveal", impactFired |-> FALSE])
  /\ UNCHANGED <<money, seedsInStorage, activeCoinPanels, boardVars, seedMeterVars,
                 harvestMeterVars, ledgerVars, flightVars, shopTimerVars, pureVars,
                 bonusSeedsFired, plantTaps, harvestTaps>>

\* the frame in which the scheduled tick finds the time of its phase over
\* (t >= 1, elapsed >= holdEnd, fade <= 0); the tick belongs to the effect run
\* that scheduled it and sees the phase of that render.  The frames before it
\* only move and redraw the panel.
CoinPanelTick ==
  \E view \in BagToSet(coinPanelViews) :
    LET rest == BagRemove(coinPanelViews, view)
        common == <<seedsInStorage, boardVars, seedMeterVars, harvestMeterVars,
                    ledgerVars, flightVars, shopTimerVars, pureVars, bonusSeedsFired,
                    plantTaps, harvestTaps>>
    IN  CASE view.tickPhase = "reveal" ->
               /\ coinPanelViews' = BagAdd(rest, [view EXCEPT !.phase = "hold"])
               /\ UNCHANGED <<money, activeCoinPanels>>
               /\ UNCHANGED common
          [] view.tickPhase = "hold" ->
               /\ coinPanelViews' = BagAdd(rest, [view EXCEPT !.phase = "moveToWallet"])
               /\ UNCHANGED <<money, activeCoinPanels>>
               /\ UNCHANGED common
          [] view.tickPhase = "moveToWallet" ->
               /\ IF impactDue(view.impactFired)
                  THEN money' = money + view.coin.value
                  ELSE UNCHANGED money
               /\ coinPanelViews' = BagAdd(rest, [view EXCEPT !.phase = "trailOnly",
                                                              !.impactFired = TRUE])
               /\ UNCHANGED activeCoinPanels
               /\ UNCHANGED common
          [] view.tickPhase = "trailOnly" ->
               /\ activeCoinPanels' = BagRemove(activeCoinPanels, view.coin)
               /\ coinPanelViews' = rest
               /\ UNCHANGED money
               /\ UNCHANGED common

\* the render after setPhase: the effect's cleanup cancels the scheduled tick
\* and the effect schedules a tick that sees the new phase
CoinPanelRender ==
  /\ \E view \in BagToSet(coinPanelViews) :
       /\ view.tickPhase # view.phase
       /\ coinPanelViews' = BagAdd(BagRemove(coinPanelViews, view),
                                   [view EXCEPT !.tickPhase = view.phase])
  /\ UNCHANGED <<money, seedsInStorage, activeCoinPanels, boardVars, seedMeterVars,
                 harvestMeterVars, ledgerVars, flightVars, shopTimerVars, pureVars,
                 bonusSeedsFired, plantTaps, harvestTaps>>

\* A session without purchases in which planting and merging have produced
\* the level-3 crop on the centre cell; nothing has been harvested yet.
InitCoinPanel ==
  /\ money = 0
  /\ grid = HarvestBoards[1]
  /\ seedsState = createInitialSeedsState
  /\ cropsState = createInitialCropsState
  /\ harvestState = createInitialHarvestState
  /\ highestPlantEver = 3
  /\ seedsInStorage = 0
  /\ seedProgress = 0 /\ isSeedFlashing = FALSE /\ seedProgressRef = 0
  /\ tapZoomRef = NoZoom /\ seedFlashTimers = 0 /\ seedBounceTrigger = 0
  /\ harvestProgress = 0 /\ isHarvestFlashing = FALSE /\ harvestProgressRef = 0
  /\ harvestTapZoomRef = NoZoom /\ harvestBounceTrigger = 0 /\ harvestTimers = NoTimers
  /\ activeProjectiles = EmptyBag /\ bonusSeedTimers = EmptyBag
  /\ activeCoinPanels = EmptyBag
  /\ dragState = NoDrag
  /\ pendingMergeLevelIncreaseRef = 1
  /\ unlockTimers = EmptyBag /\ fertilizeTimers = EmptyBag
  /\ nextItemId = 4
  /\ pureFn = "none" /\ pureArg = 0 /\ pureOut = -1
  /\ plantTaps = NoTaps
  /\ harvestTaps = 0
  /\ bonusSeedsFired = NoBonusSeeds
  /\ coinPanelViews = EmptyBag

NextCoinPanel ==
  \/ HarvestTick
  \/ HarvestEffect
  \/ HarvestFlashOff
  \/ CoinPanelMount
  \/ CoinPanelTick
  \/ CoinPanelRender

\* renders are committed and scheduled frames run
CoinPanelFairness ==
  /\ WF_vars(CoinPanelMount) /\ WF_vars(CoinPanelTick) /\ WF_vars(CoinPanelRender)

SpecCoinPanel == InitCoinPanel /\ [][NextCoinPanel]_vars /\ CoinPanelFairness

\* the sum of the values of the coins whose CoinPanel has called onImpact
RECURSIVE FiredTotal(_)
FiredTotal(views) ==
  IF BagToSet(views) = {} THEN 0
  ELSE LET v == CHOOSE x \in BagToSet(views) : TRUE
       IN  (IF v.impactFired THEN v.coin.value * CopiesIn(v, views) ELSE 0)
             + FiredTotal([x \in BagToSet(views) \ {v} |-> views[x]])

\* what the harvest passes so far have issued
IssuedTotal == harvestBounceTrigger * cellHarvestValue(grid, 9, harvestState)

\* C38: every payout issued reaches money exactly once: money and the coins
\* whose panel has not called onImpact add up to what has been issued, a coin
\* leaves the list only after its panel has called onImpact, money changes
\* only by the value of a panel that had not called onImpact before, and
\* whatever has been issued is credited in the end.
C38_CreditedOnce ==
  /\ [](money + PanelTotal(activeCoinPanels) - FiredTotal(coinPanelViews) = IssuedTotal)
  /\ [](\A v \in BagToSet(coinPanelViews) :
           BagCardinality(viewsOf(coinPanelViews, v.coin)) <= CopiesIn(v.coin, activeCoinPanels))
  /\ [][money' # money =>
          \E view \in BagToSet(coinPanelViews) :
            /\ ~view.impactFired /\ view.tickPhase = "moveToWallet"
            /\ money' = money + view.coin.value
            /\ coinPanelViews' =
                 BagAdd(BagRemove(coinPanelViews, view),
                        [view EXCEPT !.phase = "trailOnly", !.impactFired = TRUE])]_vars
  /\ [][activeCoinPanels' \sqsubseteq activeCoinPanels /\ activeCoinPanels' # activeCoinPanels =>
          \E view \in BagToSet(coinPanelViews) :
            /\ view.impactFired
            /\ activeCoinPanels' = BagRemove(activeCoinPanels, view.coin)
            /\ money' = money]_vars
  /\ \A k \in 0..MaxBounce :
       (harvestBounceTrigger >= k) ~> (money >= k * cellHarvestValue(grid, 9, harvestState))

\* the tick of phase moveToWallet has credited the first payout and is still
\* the scheduled tick, the render of phase trailOnly not yet committed, while
\* the panel of the second payout is on its way
C38_Witness ==
  /\ \E view \in BagToSet(coinPanelViews) :
       view.impactFired /\ view.phase = "trailOnly" /\ view.tickPhase = "moveToWallet"
  /\ \E view \in BagToSet(coinPanelViews) : ~view.impactFired
  /\ money = cellHarvestValue(grid, 9, harvestState)
  /\ harvestBounceTrigger = 2

----------------------------------------------------------------------------
(* Release of a crop over its own cell, checked under SpecMerge            *)

\* the step that classifies a release: onUp -> startFlyBack
ReleaseStep == dragState.phase = "holding" /\ dragState'.phase = "flyingBack"

\* C39: a drag never has its own cell as target, so handleMerge is never
\* called with source = target; a release and the landing of a crop that
\* flies back to its own cell leave the grid, the coin panels and the record
\* level as they are; and a step that removes a crop from the board or raises
\* the level of a crop is a merge of the crops of two different cells.
C39_NoSelfMerge ==
  /\ [](dragState.targetCellIdx # NoCell => dragState.targetCellIdx # dragState.cellIdx)
  /\ [][ReleaseStep => grid' = grid]_vars
  /\ [][(ImpactStep /\ dragState.targetCellIdx = NoCell)
          => /\ grid' = grid
             /\ grid'[dragState.cellIdx].item = dragState.item
             /\ activeCoinPanels' = activeCoinPanels
             /\ highestPlantEver' = highestPlantEver]_vars
  /\ [][(\/ CropCount(grid') < CropCount(grid)
         \/ \E c \in Cells : /\ grid[c].item # NoItem /\ grid'[c].item # NoItem
                             /\ grid'[c].item.level > grid[c].item.level)
          => /\ MergeStep
             /\ dragState.cellIdx # dragState.targetCellIdx
             /\ grid[dragState.cellIdx].item # NoItem
             /\ grid[dragState.targetCellIdx].item # NoItem
             /\ grid'[dragState.cellIdx].item = NoItem
             /\ grid'[dragState.targetCellIdx].item.level
                  > grid[dragState.targetCellIdx].item.level
             /\ CropCount(grid') = CropCount(grid) - 1]_vars

\* a crop has flown back to the cell it was picked up from and sits there as
\* before, next to a crop of its own level
C39_Witness ==
  /\ dragState.phase = "impact"
  /\ dragState.targetCellIdx = NoCell
  /\ grid[dragState.cellIdx].item = dragState.item
  /\ \E c \in Cells \ {dragState.cellIdx} :
       grid[c].item # NoItem /\ grid[c].item.level = dragState.item.level

----------------------------------------------------------------------------
(* The whole program from the state after construction                     *)

Next ==
  \/ NextMerge
  \/ BonusSeedTimeout
  \/ NextShop
  \/ NextMeter

Spec == Init /\ [][Next]_vars

====
